---- MODULE Spec2Model ----
(***************************************************************************)
(* Model of the tenant-shard placement scheduler of the storage            *)
(* controller (storage_controller/src/scheduler.rs).                       *)
(*                                                                         *)
(* Option<T> values are modelled as sets with at most one element: {} is   *)
(* None and {x} is Some(x).  A HashMap is a function whose DOMAIN is the   *)
(* set of keys; its iteration order is an explicit sequence of the keys.   *)
(***************************************************************************)
EXTENDS Integers, Sequences, FiniteSets, TLC

VARIABLES
    nodes,         \* Scheduler.nodes: HashMap<NodeId, SchedulerNode>
    registry,      \* the node registry: what Node::may_schedule() returns per node
    intents,       \* the shard store: one IntentState per tenant shard
    start,         \* the intents and the node table right after start-up
    context,       \* the caller's ScheduleContext
    hard_exclude,  \* the caller's hard_exclude slice, as a set of node ids
    writer,        \* a BufferedWriter<B, W>: its buf and its underlying writer
    calls,         \* the calls made on the BufferedWriter, in call order
    removed,       \* the node ids removed while an intent still named them
    local_pool,    \* a LocalConnPool<C> and the connections made for it
    postgres,      \* the Postgres cluster a MigrationRunner works on, and its runs
    reader,        \* a ReadVersion<I> future, its stream and the Rewind it yields
    last           \* the last operation: its name, arguments and result

vars == <<nodes, registry, intents, start, context, hard_exclude, writer, calls, removed,
          local_pool, postgres, reader, last>>

----------------------------------------------------------------------------
(* Bounds of the model *)

\* Node ids are 1..MaxNode
MaxNode == 2
\* Tenant shards are 1..MaxShard
MaxShard == 2
\* Largest shard count a pageserver reports in its utilization
MaxReported == 1
\* Largest per-node counter enumerated for the tables of SpecSchedule
MaxCount == 1
\* Largest affinity score enumerated for a context
MaxAffinity == 2

NodeIds == 1..MaxNode
Shards == 1..MaxShard

----------------------------------------------------------------------------
(* Integers of the program *)

\* usize::MAX.  The value 2^64 - 1 is outside the integers TLC computes with;
\* this stand-in is the value a counter wraps to in a release build.
USIZE_MAX == 2147483647

\* `x += 1` on a usize (wrapping, as a release build does)
UsizeInc(x) == IF x = USIZE_MAX THEN 0 ELSE x + 1

\* `x -= 1` on a usize (wrapping, as a release build does)
UsizeDec(x) == IF x = 0 THEN USIZE_MAX ELSE x - 1

Max(a, b) == IF a >= b THEN a ELSE b

\* Result<T, E>: Ok(v) or Err(e)
Ok(v) == [ok |-> {v}, err |-> {}]
Err(e) == [ok |-> {}, err |-> {e}]

IsOk(r) == r.ok # {}
OkNode(r) == CHOOSE n \in r.ok : TRUE

----------------------------------------------------------------------------
(* PageserverUtilization: the node registry's utilization snapshot.        *)
(* A record [shard_count, disk_score, utilization_score] where             *)
(* utilization_score is the memoised score, an Option.                     *)

\* A score at or above this value is overloaded
UTILIZATION_FULL == 2

\* The disk part of a utilization score as the pageserver reports it: an idle
\* disk, a full one and one beyond full
DiskScores == {0, UTILIZATION_FULL, UTILIZATION_FULL + 1}

\* PageserverUtilization::score: the larger of the disk and the shard part
UtilizationScore(u) == Max(u.disk_score, u.shard_count)

\* PageserverUtilization::cached_score(&mut self): the memoised score; fills
\* the memo on first use.  Returns the utilization after the call and the score.
cached_score(u) ==
    IF u.utilization_score = {}
    THEN [u |-> [u EXCEPT !.utilization_score = {UtilizationScore(u)}],
          score |-> UtilizationScore(u)]
    ELSE [u |-> u, score |-> CHOOSE s \in u.utilization_score : TRUE]

\* PageserverUtilization::is_overloaded(score)
is_overloaded(score) == score >= UTILIZATION_FULL

\* PageserverUtilization::adjust_shard_count_max(&mut self, shard_count):
\* raise the shard count to at least shard_count, dropping the memoised score
adjust_shard_count_max(u, shard_count) ==
    IF u.shard_count < shard_count
    THEN [u EXCEPT !.shard_count = shard_count, !.utilization_score = {}]
    ELSE u

\* A utilization as the node registry hands it over (score not yet memoised)
Utilization(shard_count, disk_score) ==
    [shard_count |-> shard_count, disk_score |-> disk_score, utilization_score |-> {}]

ReportedUtilizations ==
    {Utilization(c, d) : c \in 0..MaxReported, d \in DiskScores}

----------------------------------------------------------------------------
(* MaySchedule and SchedulerNode *)

No == [tag |-> "No"]
Yes(u) == [tag |-> "Yes", u |-> u]

\* What Node::may_schedule() can return for a registry node
MayScheduleValues == {No} \cup {Yes(u) : u \in ReportedUtilizations}

SchedulerNode(shard_count, attached_shard_count, may_schedule) ==
    [shard_count |-> shard_count,
     attached_shard_count |-> attached_shard_count,
     may_schedule |-> may_schedule]

----------------------------------------------------------------------------
(* ScheduleContext *)

\* AffinityScore::FREE
FREE == 0

\* HashMap::get(k).copied().unwrap_or(default)
GetOr(map, k, default) == IF k \in DOMAIN map THEN map[k] ELSE default

\* ScheduleContext::default()
DefaultContext == [nodes |-> <<>>, attached_nodes |-> <<>>, mode |-> "Normal"]

\* ScheduleContext::get_node_affinity
get_node_affinity(ctx, node_id) == GetOr(ctx.nodes, node_id, FREE)

\* ScheduleContext::get_node_attachments
get_node_attachments(ctx, node_id) == GetOr(ctx.attached_nodes, node_id, 0)

\* map with map[k] replaced or inserted
Put(map, k, v) == [x \in DOMAIN map \cup {k} |-> IF x = k THEN v ELSE map[x]]

\* map without key k
Remove(map, k) == [x \in DOMAIN map \ {k} |-> map[x]]

\* Mutant of avoid: a node that occurs in the list several times is counted once
RECURSIVE avoid_OncePerNode(_, _)
avoid_OncePerNode(ctx, list) ==
    IF list = <<>>
    THEN ctx
    ELSE LET node_id == Head(list)
             rest == SelectSeq(Tail(list), LAMBDA x : x # node_id)
             entry == GetOr(ctx.nodes, node_id, FREE)
         IN avoid_OncePerNode([ctx EXCEPT !.nodes = Put(@, node_id, UsizeInc(entry))], rest)

\* ScheduleContext::avoid(&mut self, nodes): for every element of the slice,
\* entry(node_id).or_insert(FREE) and inc()
RECURSIVE avoid(_, _)
avoid(ctx, list) ==
    IF list = <<>>
    THEN ctx
    ELSE LET node_id == Head(list)
             entry == GetOr(ctx.nodes, node_id, FREE)
         IN avoid([ctx EXCEPT !.nodes = Put(@, node_id, UsizeInc(entry))], Tail(list))

\* Mutant of push_attached: the node is counted in the affinity map as well
push_attached_AlsoAvoids(ctx, node_id) ==
    [ctx EXCEPT !.attached_nodes = Put(@, node_id, UsizeInc(GetOr(@, node_id, 0))),
                !.nodes = Put(@, node_id, UsizeInc(GetOr(@, node_id, FREE)))]

\* ScheduleContext::push_attached(&mut self, node_id):
\* entry(node_id).or_default() += 1
push_attached(ctx, node_id) ==
    [ctx EXCEPT !.attached_nodes = Put(@, node_id, UsizeInc(GetOr(@, node_id, 0)))]

----------------------------------------------------------------------------
(* Node table operations *)

\* Scheduler::new(nodes): one entry per registry node, counters 0
new(reg) == [n \in DOMAIN reg |-> SchedulerNode(0, 0, reg[n])]

RefCountUpdates ==
    {"PromoteSecondary", "Attach", "Detach", "DemoteAttached", "AddSecondary",
     "RemoveSecondary"}

\* Mutant of UpdateCounters: DemoteAttached lowers shard_count instead of
\* attached_shard_count
UpdateCounters_DemoteLowersShardCount(node, update) ==
    CASE update = "PromoteSecondary" ->
           [node EXCEPT !.attached_shard_count = UsizeInc(@)]
      [] update = "Attach" ->
           [node EXCEPT !.shard_count = UsizeInc(@), !.attached_shard_count = UsizeInc(@)]
      [] update = "Detach" ->
           [node EXCEPT !.shard_count = UsizeDec(@), !.attached_shard_count = UsizeDec(@)]
      [] update = "DemoteAttached" ->
           [node EXCEPT !.shard_count = UsizeDec(@)]
      [] update = "AddSecondary" ->
           [node EXCEPT !.shard_count = UsizeInc(@)]
      [] update = "RemoveSecondary" ->
           [node EXCEPT !.shard_count = UsizeDec(@)]

\* Mutant of UpdateCounters: PromoteSecondary counts a new location as well
UpdateCounters_PromoteAddsLocation(node, update) ==
    CASE update = "PromoteSecondary" ->
           [node EXCEPT !.shard_count = UsizeInc(@), !.attached_shard_count = UsizeInc(@)]
      [] update = "Attach" ->
           [node EXCEPT !.shard_count = UsizeInc(@), !.attached_shard_count = UsizeInc(@)]
      [] update = "Detach" ->
           [node EXCEPT !.shard_count = UsizeDec(@), !.attached_shard_count = UsizeDec(@)]
      [] update = "DemoteAttached" ->
           [node EXCEPT !.attached_shard_count = UsizeDec(@)]
      [] update = "AddSecondary" ->
           [node EXCEPT !.shard_count = UsizeInc(@)]
      [] update = "RemoveSecondary" ->
           [node EXCEPT !.shard_count = UsizeDec(@)]

\* Mutant of UpdateCounters: Detach forgets the attached count
UpdateCounters_DetachKeepsAttached(node, update) ==
    CASE update = "PromoteSecondary" ->
           [node EXCEPT !.attached_shard_count = UsizeInc(@)]
      [] update = "Attach" ->
           [node EXCEPT !.shard_count = UsizeInc(@), !.attached_shard_count = UsizeInc(@)]
      [] update = "Detach" ->
           [node EXCEPT !.shard_count = UsizeDec(@)]
      [] update = "DemoteAttached" ->
           [node EXCEPT !.attached_shard_count = UsizeDec(@)]
      [] update = "AddSecondary" ->
           [node EXCEPT !.shard_count = UsizeInc(@)]
      [] update = "RemoveSecondary" ->
           [node EXCEPT !.shard_count = UsizeDec(@)]

\* Mutant of UpdateCounters: Attach counts a location but not an attachment
UpdateCounters_AttachAsSecondary(node, update) ==
    CASE update = "PromoteSecondary" ->
           [node EXCEPT !.attached_shard_count = UsizeInc(@)]
      [] update = "Attach" ->
           [node EXCEPT !.shard_count = UsizeInc(@)]
      [] update = "Detach" ->
           [node EXCEPT !.shard_count = UsizeDec(@), !.attached_shard_count = UsizeDec(@)]
      [] update = "DemoteAttached" ->
           [node EXCEPT !.attached_shard_count = UsizeDec(@)]
      [] update = "AddSecondary" ->
           [node EXCEPT !.shard_count = UsizeInc(@)]
      [] update = "RemoveSecondary" ->
           [node EXCEPT !.shard_count = UsizeDec(@)]

\* The first match of update_node_ref_counts: the counters of the node
UpdateCounters(node, update) ==
    CASE update = "PromoteSecondary" ->
           [node EXCEPT !.attached_shard_count = UsizeInc(@)]
      [] update = "Attach" ->
           [node EXCEPT !.shard_count = UsizeInc(@), !.attached_shard_count = UsizeInc(@)]
      [] update = "Detach" ->
           [node EXCEPT !.shard_count = UsizeDec(@), !.attached_shard_count = UsizeDec(@)]
      [] update = "DemoteAttached" ->
           [node EXCEPT !.attached_shard_count = UsizeDec(@)]
      [] update = "AddSecondary" ->
           [node EXCEPT !.shard_count = UsizeInc(@)]
      [] update = "RemoveSecondary" ->
           [node EXCEPT !.shard_count = UsizeDec(@)]

\* Mutant of UpdateUtilization: every update sets the utilization's shard
\* count to the node's shard_count, also when that lowers it
UpdateUtilization_Symmetric(node, update) ==
    IF node.may_schedule.tag = "Yes"
    THEN [node EXCEPT !.may_schedule =
              Yes([node.may_schedule.u EXCEPT !.shard_count = node.shard_count,
                                              !.utilization_score = {}])]
    ELSE node

\* The second match of update_node_ref_counts: an update that references the
\* node raises the utilization's shard count to the node's shard_count; one
\* that de-references it leaves the utilization as it is
UpdateUtilization(node, update) ==
    IF update \in {"AddSecondary", "Attach"} /\ node.may_schedule.tag = "Yes"
    THEN [node EXCEPT !.may_schedule =
              Yes(adjust_shard_count_max(node.may_schedule.u, node.shard_count))]
    ELSE node

\* Mutant of update_node_ref_counts: an unknown node id gets an entry
update_node_ref_counts_InsertsUnknown(nds, node_id, update) ==
    LET known == IF node_id \in DOMAIN nds THEN nds ELSE Put(nds, node_id, SchedulerNode(0, 0, No))
    IN [known EXCEPT ![node_id] = UpdateUtilization(UpdateCounters(known[node_id], update), update)]

\* Scheduler::update_node_ref_counts(&mut self, node_id, update); an unknown
\* node id is logged and the table left alone
update_node_ref_counts(nds, node_id, update) ==
    IF node_id \notin DOMAIN nds
    THEN nds
    ELSE [nds EXCEPT ![node_id] = UpdateUtilization(UpdateCounters(nds[node_id], update), update)]

\* Mutant of node_upsert: a known node is inserted afresh
node_upsert_InsertsAfresh(nds, node_id, may_schedule) ==
    Put(nds, node_id, SchedulerNode(0, 0, may_schedule))

\* Mutant of node_upsert: the reported utilization is stored as it came
node_upsert_KeepsReported(nds, node_id, may_schedule) ==
    IF node_id \in DOMAIN nds
    THEN [nds EXCEPT ![node_id].may_schedule = may_schedule]
    ELSE Put(nds, node_id, SchedulerNode(0, 0, may_schedule))

\* Scheduler::node_upsert(&mut self, node), node = (node_id, may_schedule)
node_upsert(nds, node_id, may_schedule) ==
    IF node_id \in DOMAIN nds
    THEN [nds EXCEPT ![node_id].may_schedule =
              IF may_schedule.tag = "Yes"
              THEN Yes(adjust_shard_count_max(may_schedule.u, nds[node_id].shard_count))
              ELSE may_schedule]
    ELSE Put(nds, node_id, SchedulerNode(0, 0, may_schedule))

\* Mutant of node_remove: the removal also forgets the locations counted on
\* the nodes that stay
node_remove_ResetsOthers(nds, node_id) ==
    [k \in DOMAIN nds \ {node_id} |-> SchedulerNode(0, 0, nds[k].may_schedule)]

\* Scheduler::node_remove(&mut self, node_id)
node_remove(nds, node_id) == Remove(nds, node_id)

\* A panic that unwinds out of a call
Panic == Err("panic")
IsPanic(r) == r.err = {"panic"}

\* a + b on usize (wrapping, as a release build does)
UsizeAdd(a, b) == IF a > USIZE_MAX - b THEN a - (USIZE_MAX - b) - 1 ELSE a + b

\* self.nodes.values().map(|n| n.attached_shard_count).sum() over the given keys
RECURSIVE SumAttached(_, _)
SumAttached(nds, keys) ==
    IF keys = {}
    THEN 0
    ELSE LET k == CHOOSE x \in keys : TRUE
         IN UsizeAdd(nds[k].attached_shard_count, SumAttached(nds, keys \ {k}))

\* Mutant of expected_attached_shard_count: the attached shards of nodes that
\* may not be scheduled on are left out of the sum
expected_attached_shard_count_SchedulableOnly(nds) ==
    LET total_attached_shards ==
            SumAttached(nds, {k \in DOMAIN nds : nds[k].may_schedule.tag = "Yes"})
    IN IF DOMAIN nds = {}
       THEN Panic
       ELSE Ok(total_attached_shards \div Cardinality(DOMAIN nds))

\* Scheduler::expected_attached_shard_count(&self): the sum of the attached
\* counts divided by the number of nodes; assert!(!self.nodes.is_empty())
\* panics on an empty table
expected_attached_shard_count(nds) ==
    LET total_attached_shards == SumAttached(nds, DOMAIN nds)
    IN IF DOMAIN nds = {}
       THEN Panic
       ELSE Ok(total_attached_shards \div Cardinality(DOMAIN nds))

\* Mutant of compute_fill_requirement: the table is asserted to be non-empty
\* before the node is looked up
compute_fill_requirement_AssertsFirst(nds, node_id) ==
    IF DOMAIN nds = {}
    THEN Panic
    ELSE IF node_id \notin DOMAIN nds
         THEN Ok(0)
         ELSE LET expected == expected_attached_shard_count(nds)
                  e == CHOOSE x \in expected.ok : TRUE
                  a == nds[node_id].attached_shard_count
              IN IF IsPanic(expected) THEN Panic
                 ELSE IF a < e THEN Ok(e - a) ELSE Ok(0)

\* Mutant of compute_fill_requirement: the subtraction is not guarded
compute_fill_requirement_Unguarded(nds, node_id) ==
    IF node_id \notin DOMAIN nds
    THEN Ok(0)
    ELSE LET expected == expected_attached_shard_count(nds)
             e == CHOOSE x \in expected.ok : TRUE
             a == nds[node_id].attached_shard_count
         IN IF IsPanic(expected) THEN Panic
            ELSE IF a <= e THEN Ok(e - a) ELSE Ok(USIZE_MAX - (a - e) + 1)

\* Scheduler::compute_fill_requirement(&self, node_id): an unknown node gives
\* 0 (logged); the assert on the table holds once the node was found
compute_fill_requirement(nds, node_id) ==
    IF node_id \notin DOMAIN nds
    THEN Ok(0)
    ELSE IF DOMAIN nds = {}
         THEN Panic
         ELSE LET expected == expected_attached_shard_count(nds)
                  e == CHOOSE x \in expected.ok : TRUE
                  a == nds[node_id].attached_shard_count
              IN IF IsPanic(expected) THEN Panic
                 ELSE IF a < e THEN Ok(e - a) ELSE Ok(0)

\* Insert the pair x into the sequence sorted by descending count, after
\* every pair whose count is not smaller
RECURSIVE InsertByCountReversed(_, _)
InsertByCountReversed(sorted, x) ==
    IF sorted = <<>>
    THEN <<x>>
    ELSE IF x[2] > Head(sorted)[2]
         THEN <<x>> \o sorted
         ELSE <<Head(sorted)>> \o InsertByCountReversed(Tail(sorted), x)

\* Insert the pair x into the sequence sorted by ascending count
RECURSIVE InsertByCount(_, _)
InsertByCount(sorted, x) ==
    IF sorted = <<>>
    THEN <<x>>
    ELSE IF x[2] < Head(sorted)[2]
         THEN <<x>> \o sorted
         ELSE <<Head(sorted)>> \o InsertByCount(Tail(sorted), x)

\* Mutant of nodes_by_attached_shard_count: the comparison is not reversed
RECURSIVE nodes_by_attached_shard_count_Ascending(_, _)
nodes_by_attached_shard_count_Ascending(nds, order) ==
    IF order = <<>>
    THEN <<>>
    ELSE LET front == SubSeq(order, 1, Len(order) - 1)
             k == order[Len(order)]
         IN InsertByCount(nodes_by_attached_shard_count_Ascending(nds, front),
                          <<k, nds[k].attached_shard_count>>)

\* Scheduler::nodes_by_attached_shard_count(&self): the (node id, attached
\* count) pairs in the map's iteration order, sorted by count with the
\* comparison reversed (a stable sort)
RECURSIVE nodes_by_attached_shard_count(_, _)
nodes_by_attached_shard_count(nds, order) ==
    IF order = <<>>
    THEN <<>>
    ELSE LET front == SubSeq(order, 1, Len(order) - 1)
             k == order[Len(order)]
         IN InsertByCountReversed(nodes_by_attached_shard_count(nds, front),
                                  <<k, nds[k].attached_shard_count>>)

\* Mutant of node_preferred: the may_schedule flag of the chosen member is
\* not looked at
node_preferred_AnyMember(nds, list) ==
    IF list = <<>> THEN {} ELSE {list[Len(list)]}

\* Scheduler::node_preferred(&self, nodes): max_by_key over the members'
\* may_schedule flags returns the last member with the largest flag; it is
\* returned when its flag is true.  An Option<NodeId>.
node_preferred(nds, list) ==
    IF list = <<>>
    THEN {}
    ELSE LET may_schedule(i) ==
                 IF list[i] \in DOMAIN nds
                 THEN nds[list[i]].may_schedule.tag # "No"
                 ELSE FALSE
             best == {i \in DOMAIN list : may_schedule(i)}
         IN IF best = {}
            THEN {}
            ELSE {list[CHOOSE i \in best : \A j \in best : j <= i]}

\* Mutant of SchedulerNodeEq: the attached counts are not compared
SchedulerNodeEq_IgnoresAttached(a, b) ==
    /\ a.may_schedule.tag = b.may_schedule.tag
    /\ a.shard_count = b.shard_count

\* impl PartialEq for SchedulerNode: the utilization is not compared
SchedulerNodeEq(a, b) ==
    /\ a.may_schedule.tag = b.may_schedule.tag
    /\ a.shard_count = b.shard_count
    /\ a.attached_shard_count = b.attached_shard_count

----------------------------------------------------------------------------
(* IntentState of a tenant shard: [attached: Option<NodeId>, secondary: the *)
(* set of secondary node ids]                                               *)

EmptyIntent == [attached |-> {}, secondary |-> {}]

\* IntentState::all_pageservers
all_pageservers(intent) == intent.attached \cup intent.secondary

\* The node ids some shard's intent names
Referenced(its) == UNION {all_pageservers(its[s]) : s \in DOMAIN its}

\* The number of shards of its whose intent has node_id in the given field
CountAttached(its, node_id) == Cardinality({s \in DOMAIN its : node_id \in its[s].attached})
CountSecondary(its, node_id) == Cardinality({s \in DOMAIN its : node_id \in its[s].secondary})

\* Mutant of consistency_check: nodes of the table that were not supplied go
\* unnoticed
consistency_check_SkipsUnexpected(nds, reg, its) ==
    IF \E n \in Referenced(its) : n \notin DOMAIN reg
    THEN Err("references nonexistent node")
    ELSE LET expect_nodes ==
                 [n \in DOMAIN reg |->
                     SchedulerNode(CountAttached(its, n) + CountSecondary(its, n),
                                   CountAttached(its, n), reg[n])]
         IN IF \E n \in DOMAIN expect_nodes : n \notin DOMAIN nds
            THEN Err("not found in Self")
            ELSE IF \E n \in DOMAIN expect_nodes : ~SchedulerNodeEq(nds[n], expect_nodes[n])
                 THEN Err("Inconsistent state")
                 ELSE Ok("unit")

\* Scheduler::consistency_check(&self, nodes, shards): rebuild the expected
\* entries from the registry nodes and the shards' intents and compare them
\* with the table.  When an expected node is missing from the table and
\* another one differs, the code reports whichever its iteration meets first;
\* the "not found" error is given here.
consistency_check(nds, reg, its) ==
    IF \E n \in Referenced(its) : n \notin DOMAIN reg
    THEN Err("references nonexistent node")
    ELSE LET expect_nodes ==
                 [n \in DOMAIN reg |->
                     SchedulerNode(CountAttached(its, n) + CountSecondary(its, n),
                                   CountAttached(its, n), reg[n])]
         IN IF \E n \in DOMAIN expect_nodes : n \notin DOMAIN nds
            THEN Err("not found in Self")
            ELSE IF \E n \in DOMAIN expect_nodes : ~SchedulerNodeEq(nds[n], expect_nodes[n])
                 THEN Err("Inconsistent state")
                 ELSE IF Cardinality(DOMAIN expect_nodes) # Cardinality(DOMAIN nds)
                         /\ \E n \in DOMAIN nds : n \notin DOMAIN expect_nodes
                      THEN Err("found in Self but not in expected nodes")
                      ELSE Ok("unit")

----------------------------------------------------------------------------
(* Scheduling scores *)

Tags == {"AttachedShardTag", "SecondaryShardTag"}

\* Mutant of AttachmentScoreGenerate: a higher affinity score in the context
\* gives a lower affinity field
AttachmentScoreGenerate_AffinityAttracts(node_id, node, ctx) ==
    IF node.may_schedule.tag = "No"
    THEN [node |-> node, score |-> {}]
    ELSE LET c == cached_score(node.may_schedule.u)
         IN [node |-> [node EXCEPT !.may_schedule = Yes(c.u)],
             score |-> {[affinity_score |-> MaxAffinity - GetOr(ctx.nodes, node_id, FREE),
                         attached_shards_in_context |-> GetOr(ctx.attached_nodes, node_id, 0),
                         utilization_score |-> c.score,
                         total_attached_shard_count |-> node.attached_shard_count,
                         node_id |-> node_id]}]

\* NodeAttachmentSchedulingScore::generate(node_id, &mut node, context):
\* the node after the call (the utilization memoises its score) and Option<Score>
AttachmentScoreGenerate(node_id, node, ctx) ==
    IF node.may_schedule.tag = "No"
    THEN [node |-> node, score |-> {}]
    ELSE LET c == cached_score(node.may_schedule.u)
         IN [node |-> [node EXCEPT !.may_schedule = Yes(c.u)],
             score |-> {[affinity_score |-> GetOr(ctx.nodes, node_id, FREE),
                         attached_shards_in_context |-> GetOr(ctx.attached_nodes, node_id, 0),
                         utilization_score |-> c.score,
                         total_attached_shard_count |-> node.attached_shard_count,
                         node_id |-> node_id]}]

\* Mutant of SecondaryScoreGenerate: the attachments in the context are added
\* to the affinity score
SecondaryScoreGenerate_CountsAttached(node_id, node, ctx) ==
    IF node.may_schedule.tag = "No"
    THEN [node |-> node, score |-> {}]
    ELSE LET c == cached_score(node.may_schedule.u)
         IN [node |-> [node EXCEPT !.may_schedule = Yes(c.u)],
             score |-> {[affinity_score |-> GetOr(ctx.nodes, node_id, FREE)
                                             + GetOr(ctx.attached_nodes, node_id, 0),
                         utilization_score |-> c.score,
                         total_attached_shard_count |-> node.attached_shard_count,
                         node_id |-> node_id]}]

\* NodeSecondarySchedulingScore::generate(node_id, &mut node, context)
SecondaryScoreGenerate(node_id, node, ctx) ==
    IF node.may_schedule.tag = "No"
    THEN [node |-> node, score |-> {}]
    ELSE LET c == cached_score(node.may_schedule.u)
         IN [node |-> [node EXCEPT !.may_schedule = Yes(c.u)],
             score |-> {[affinity_score |-> GetOr(ctx.nodes, node_id, FREE),
                         utilization_score |-> c.score,
                         total_attached_shard_count |-> node.attached_shard_count,
                         node_id |-> node_id]}]

\* Mutant of Generate: a node the context avoids yields no score
Generate_DropsAvoided(tag, node_id, node, ctx) ==
    IF GetOr(ctx.nodes, node_id, FREE) > FREE
    THEN [node |-> node, score |-> {}]
    ELSE IF tag = "AttachedShardTag"
         THEN AttachmentScoreGenerate(node_id, node, ctx)
         ELSE SecondaryScoreGenerate(node_id, node, ctx)

\* Mutant of Generate: a node with may_schedule No is scored as an idle node
Generate_ScoresUnschedulable(tag, node_id, node, ctx) ==
    IF node.may_schedule.tag = "No"
    THEN [node |-> node,
          score |-> {[affinity_score |-> GetOr(ctx.nodes, node_id, FREE),
                      attached_shards_in_context |-> GetOr(ctx.attached_nodes, node_id, 0),
                      utilization_score |-> 0,
                      total_attached_shard_count |-> node.attached_shard_count,
                      node_id |-> node_id]}]
    ELSE IF tag = "AttachedShardTag"
         THEN AttachmentScoreGenerate(node_id, node, ctx)
         ELSE SecondaryScoreGenerate(node_id, node, ctx)

\* <Tag::Score as NodeSchedulingScore>::generate
Generate(tag, node_id, node, ctx) ==
    IF tag = "AttachedShardTag"
    THEN AttachmentScoreGenerate(node_id, node, ctx)
    ELSE SecondaryScoreGenerate(node_id, node, ctx)

\* Mutant of AttachmentScoreKey: the utilization score is compared first
AttachmentScoreKey_UtilizationFirst(s) ==
    <<s.utilization_score, s.affinity_score, s.attached_shards_in_context,
      s.total_attached_shard_count, s.node_id>>

\* The fields of NodeAttachmentSchedulingScore in declaration order
AttachmentScoreKey(s) ==
    <<s.affinity_score, s.attached_shards_in_context, s.utilization_score,
      s.total_attached_shard_count, s.node_id>>

\* The fields of NodeSecondarySchedulingScore in declaration order
SecondaryScoreKey(s) ==
    <<s.affinity_score, s.utilization_score, s.total_attached_shard_count, s.node_id>>

\* derive(PartialOrd, Ord) on a struct: compare field by field, the first
\* field that differs decides
RECURSIVE LexLess(_, _)
LexLess(a, b) ==
    IF a = <<>> \/ b = <<>>
    THEN FALSE
    ELSE IF Head(a) # Head(b)
         THEN Head(a) < Head(b)
         ELSE LexLess(Tail(a), Tail(b))

\* Mutant of ScoreLess: the node id is left out of the comparison
ScoreLess_NoNodeId(tag, a, b) ==
    IF tag = "AttachedShardTag"
    THEN LexLess(SubSeq(AttachmentScoreKey(a), 1, 4), SubSeq(AttachmentScoreKey(b), 1, 4))
    ELSE LexLess(SubSeq(SecondaryScoreKey(a), 1, 3), SubSeq(SecondaryScoreKey(b), 1, 3))

\* a < b for two scores of the tag's score type
ScoreLess(tag, a, b) ==
    IF tag = "AttachedShardTag"
    THEN LexLess(AttachmentScoreKey(a), AttachmentScoreKey(b))
    ELSE LexLess(SecondaryScoreKey(a), SecondaryScoreKey(b))

\* NodeSchedulingScore::is_overloaded(&self)
ScoreIsOverloaded(s) == is_overloaded(s.utilization_score)

\* Insert x into the sorted sequence sorted, after every element not greater
RECURSIVE SortedInsert(_, _, _)
SortedInsert(tag, sorted, x) ==
    IF sorted = <<>>
    THEN <<x>>
    ELSE IF ScoreLess(tag, x, Head(sorted))
         THEN <<x>> \o sorted
         ELSE <<Head(sorted)>> \o SortedInsert(tag, Tail(sorted), x)

\* scores.sort(): a stable ascending sort
RECURSIVE SortScores(_, _)
SortScores(tag, scores) ==
    IF scores = <<>>
    THEN <<>>
    ELSE SortedInsert(tag, SortScores(tag, SubSeq(scores, 1, Len(scores) - 1)),
                      scores[Len(scores)])

\* Mutant of NonOverloaded: the overload filter drops nothing
NonOverloaded_KeepAll(scores) == scores

\* scores.iter().filter(|i| !i.is_overloaded()).copied().collect()
RECURSIVE NonOverloaded(_)
NonOverloaded(scores) ==
    IF scores = <<>>
    THEN <<>>
    ELSE IF ScoreIsOverloaded(Head(scores))
         THEN NonOverloaded(Tail(scores))
         ELSE <<Head(scores)>> \o NonOverloaded(Tail(scores))

\* The orders in which a HashMap with the given key set may be iterated
IterationOrders(keys) ==
    {o \in [1..Cardinality(keys) -> keys] : \A i, j \in DOMAIN o : i # j => o[i] # o[j]}

\* Mutant of compute_node_scores: hard_exclude is not consulted
RECURSIVE compute_node_scores_NoExclude(_, _, _, _, _)
compute_node_scores_NoExclude(tag, nds, order, exclude, ctx) ==
    IF order = <<>>
    THEN [nodes |-> nds, scores |-> <<>>]
    ELSE LET k == Head(order)
             g == Generate(tag, k, nds[k], ctx)
             rest == compute_node_scores_NoExclude(tag, [nds EXCEPT ![k] = g.node],
                                                   Tail(order), exclude, ctx)
         IN [nodes |-> rest.nodes,
             scores |-> (IF g.score = {} THEN <<>>
                         ELSE <<CHOOSE s \in g.score : TRUE>>) \o rest.scores]

\* Scheduler::compute_node_scores(&mut self, hard_exclude, context): visit the
\* nodes in the map's iteration order, skip the excluded ones and the ones that
\* yield no score.  Returns the node table after the visit and the Vec<Score>.
RECURSIVE compute_node_scores(_, _, _, _, _)
compute_node_scores(tag, nds, order, exclude, ctx) ==
    IF order = <<>>
    THEN [nodes |-> nds, scores |-> <<>>]
    ELSE LET k == Head(order)
         IN IF k \in exclude
            THEN compute_node_scores(tag, nds, Tail(order), exclude, ctx)
            ELSE LET g == Generate(tag, k, nds[k], ctx)
                     rest == compute_node_scores(tag, [nds EXCEPT ![k] = g.node],
                                                 Tail(order), exclude, ctx)
                 IN [nodes |-> rest.nodes,
                     scores |-> (IF g.score = {} THEN <<>>
                                 ELSE <<CHOOSE s \in g.score : TRUE>>) \o rest.scores]

\* if !matches!(context.mode, ScheduleMode::Speculative) { tracing::info!(..) }
UnlessSpeculative(ctx, lines) == IF ctx.mode = "Speculative" THEN <<>> ELSE lines

\* The lines logged when no candidate is left: the exclusions, then one line
\* per node of the table in iteration order
FailureLines(nds, order, exclude) ==
    <<[msg |-> "Scheduling failure", hard_exclude |-> exclude]>>
    \o [i \in 1..Len(order) |->
            [msg |-> "Node", node_id |-> order[i],
             may_schedule |-> (nds[order[i]].may_schedule.tag # "No"),
             shards |-> nds[order[i]].shard_count]]

\* The line logged when a node is chosen
SelectedLines(scores, exclude, ctx) ==
    <<[msg |-> "scheduler selected node", node_id |-> Head(scores).node_id,
       eligible |-> [i \in 1..Len(scores) |-> scores[i].node_id],
       hard_exclude |-> exclude, soft_exclude |-> ctx]>>

\* Mutant of schedule_shard: the chosen node is counted as attached at once
schedule_shard_CountsWinner(tag, nds, order, exclude, ctx) ==
    IF DOMAIN nds = {}
    THEN [nodes |-> nds, result |-> Err("NoPageservers")]
    ELSE LET computed == compute_node_scores(tag, nds, order, exclude, ctx)
             non_overloaded_scores == NonOverloaded(computed.scores)
             kept == IF non_overloaded_scores # <<>>
                     THEN non_overloaded_scores
                     ELSE computed.scores
             scores == SortScores(tag, kept)
         IN IF scores = <<>>
            THEN [nodes |-> computed.nodes, result |-> Err("ImpossibleConstraint")]
            ELSE [nodes |-> update_node_ref_counts(computed.nodes, Head(scores).node_id,
                                                   "Attach"),
                  result |-> Ok(Head(scores).node_id)]

\* Mutant of schedule_shard: the table is not tested for emptiness first
schedule_shard_NoEmptyTest(tag, nds, order, exclude, ctx) ==
    LET computed == compute_node_scores(tag, nds, order, exclude, ctx)
        non_overloaded_scores == NonOverloaded(computed.scores)
        kept == IF non_overloaded_scores # <<>>
                THEN non_overloaded_scores
                ELSE computed.scores
        scores == SortScores(tag, kept)
    IN IF scores = <<>>
       THEN [nodes |-> computed.nodes, result |-> Err("ImpossibleConstraint")]
       ELSE [nodes |-> computed.nodes, result |-> Ok(Head(scores).node_id)]

\* Mutant of schedule_shard: overloaded candidates are dropped even when no
\* other candidate is left
schedule_shard_OverloadFails(tag, nds, order, exclude, ctx) ==
    IF DOMAIN nds = {}
    THEN [nodes |-> nds, result |-> Err("NoPageservers")]
    ELSE LET computed == compute_node_scores(tag, nds, order, exclude, ctx)
             scores == SortScores(tag, NonOverloaded(computed.scores))
         IN IF scores = <<>>
            THEN [nodes |-> computed.nodes, result |-> Err("ImpossibleConstraint")]
            ELSE [nodes |-> computed.nodes, result |-> Ok(Head(scores).node_id)]

\* Mutant of schedule_shard: the early return of the failure sits inside the
\* branch that logs, so a speculative call goes on to scores.first().unwrap()
schedule_shard_ReturnInsideLog(tag, nds, order, exclude, ctx) ==
    IF DOMAIN nds = {}
    THEN [nodes |-> nds, result |-> Err("NoPageservers"), log |-> <<>>]
    ELSE LET computed == compute_node_scores(tag, nds, order, exclude, ctx)
             non_overloaded_scores == NonOverloaded(computed.scores)
             kept == IF non_overloaded_scores # <<>>
                     THEN non_overloaded_scores
                     ELSE computed.scores
             scores == SortScores(tag, kept)
         IN IF scores = <<>>
            THEN IF ctx.mode = "Speculative"
                 THEN [nodes |-> computed.nodes, result |-> Panic, log |-> <<>>]
                 ELSE [nodes |-> computed.nodes, result |-> Err("ImpossibleConstraint"),
                       log |-> FailureLines(computed.nodes, order, exclude)]
            ELSE [nodes |-> computed.nodes, result |-> Ok(Head(scores).node_id),
                  log |-> UnlessSpeculative(ctx, SelectedLines(scores, exclude, ctx))]

\* Scheduler::schedule_shard::<Tag>(&mut self, hard_exclude, context), with the
\* iteration order of self.nodes made explicit.  Returns the node table after
\* the call and the Result.
schedule_shard(tag, nds, order, exclude, ctx) ==
    IF DOMAIN nds = {}
    THEN [nodes |-> nds, result |-> Err("NoPageservers"), log |-> <<>>]
    ELSE LET computed == compute_node_scores(tag, nds, order, exclude, ctx)
             non_overloaded_scores == NonOverloaded(computed.scores)
             kept == IF non_overloaded_scores # <<>>
                     THEN non_overloaded_scores
                     ELSE computed.scores
             scores == SortScores(tag, kept)
         IN IF scores = <<>>
            THEN [nodes |-> computed.nodes, result |-> Err("ImpossibleConstraint"),
                  log |-> UnlessSpeculative(ctx, FailureLines(computed.nodes, order, exclude))]
            ELSE [nodes |-> computed.nodes, result |-> Ok(Head(scores).node_id),
                  log |-> UnlessSpeculative(ctx, SelectedLines(scores, exclude, ctx))]

----------------------------------------------------------------------------
(* SpecSchedule: schedule_shard applied to every node table, context and  *)
(* hard_exclude within the bounds.                                         *)

\* Largest attached-in-context count enumerated for a context
MaxAttachedInContext == 1

\* The sparse map holding the non-zero entries of f
Sparse(f) ==
    LET keys == {k \in DOMAIN f : f[k] # 0}
    IN [k \in keys |-> f[k]]

\* The contexts that avoid and push_attached can build within the bounds
Contexts ==
    {[nodes |-> Sparse(a), attached_nodes |-> Sparse(b), mode |-> "Normal"] :
        a \in [NodeIds -> 0..MaxAffinity],
        b \in [NodeIds -> 0..MaxAttachedInContext]}

\* The entries a node can have: counters within the bound, and a may_schedule
\* as node_upsert and update_node_ref_counts leave it (a reported utilization
\* raised to the node's shard count)
SchedulerNodes ==
    {SchedulerNode(sc, at, No) : sc \in 0..MaxCount, at \in 0..MaxCount}
    \cup {SchedulerNode(sc, at, Yes(adjust_shard_count_max(u, sc))) :
            sc \in 0..MaxCount, at \in 0..MaxCount, u \in ReportedUtilizations}

\* The node tables within the bounds
\* (attached_shard_count <= shard_count, as intents produce them)
Tables ==
    UNION {[keys -> {n \in SchedulerNodes : n.attached_shard_count <= n.shard_count}] :
            keys \in SUBSET NodeIds}

\* The registry, the shard store and the start-up snapshot play no part in
\* SpecSchedule
Unused == <<>>

NoOp == [op |-> "none"]

InitSchedule ==
    /\ nodes \in Tables
    /\ context \in Contexts
    /\ hard_exclude \in SUBSET NodeIds
    /\ registry = Unused
    /\ intents = Unused
    /\ start = Unused
    /\ writer = Unused
    /\ calls = Unused
    /\ removed = Unused
    /\ local_pool = Unused
    /\ postgres = Unused
    /\ reader = Unused
    /\ last = NoOp

\* A call of schedule_shard::<Tag>(&hard_exclude, &context)
ScheduleShard(tag) ==
    \E order \in IterationOrders(DOMAIN nodes) :
        LET r == schedule_shard(tag, nodes, order, hard_exclude, context)
        IN /\ nodes' = r.nodes
           /\ last' = [op |-> "schedule_shard", tag |-> tag, result |-> r.result]
           /\ UNCHANGED <<registry, intents, start, context, hard_exclude, writer, calls, removed,
                 local_pool, postgres, reader>>

NextSchedule == \E tag \in Tags : ScheduleShard(tag)

SpecSchedule == InitSchedule /\ [][NextSchedule]_vars

----------------------------------------------------------------------------
(* Properties of schedule_shard, checked under SpecSchedule *)

Scheduled == last.op = "schedule_shard"

\* The utilization score schedule_shard reads for a schedulable node
NodeScore(node) == cached_score(node.may_schedule.u).score

\* The nodes that yield a score: in the table, may_schedule Yes, not excluded
Eligible == {n \in DOMAIN nodes \ hard_exclude : nodes[n].may_schedule.tag = "Yes"}

\* C1: a node id returned by schedule_shard, for either tag and any context,
\* is never a member of hard_exclude.
C1_HardConstraint ==
    (Scheduled /\ IsOk(last.result)) => OkNode(last.result) \notin hard_exclude

\* C1 witness: a call returned a node although a schedulable node of the table
\* with no worse affinity and a lower id was in hard_exclude.
C1_Witness ==
    /\ Scheduled
    /\ IsOk(last.result)
    /\ \E e \in hard_exclude \cap DOMAIN nodes :
          /\ nodes[e].may_schedule.tag = "Yes"
          /\ ~is_overloaded(NodeScore(nodes[e]))
          /\ e < OkNode(last.result)
          /\ get_node_affinity(context, e) = FREE

\* C2: if some schedulable node outside hard_exclude is not overloaded, the
\* call returns a node that is not overloaded, whatever the context says.
C2_OverloadAvoidance ==
    (Scheduled /\ \E n \in Eligible : ~is_overloaded(NodeScore(nodes[n])))
        => /\ IsOk(last.result)
           /\ OkNode(last.result) \in Eligible
           /\ ~is_overloaded(NodeScore(nodes[OkNode(last.result)]))

\* C2 witness: the returned node is not overloaded and has a strictly worse
\* affinity than an overloaded eligible node.
C2_Witness ==
    /\ Scheduled
    /\ IsOk(last.result)
    /\ ~is_overloaded(NodeScore(nodes[OkNode(last.result)]))
    /\ \E o \in Eligible :
          /\ is_overloaded(NodeScore(nodes[o]))
          /\ get_node_affinity(context, o) < get_node_affinity(context, OkNode(last.result))

\* C3: with the same node table, context and hard_exclude, schedule_shard
\* returns the same result under every iteration order of the node map, and
\* a repeated call returns what the last call returned.
C3_Determinism ==
    /\ \A tag \in Tags : \A o1, o2 \in IterationOrders(DOMAIN nodes) :
          schedule_shard(tag, nodes, o1, hard_exclude, context).result
            = schedule_shard(tag, nodes, o2, hard_exclude, context).result
    /\ Scheduled =>
          \A o \in IterationOrders(DOMAIN nodes) :
              schedule_shard(last.tag, nodes, o, hard_exclude, context).result = last.result

\* C3 witness: a call returned a node while another eligible node had the same
\* affinity, attached-in-context count, utilization score and attached count,
\* so that only the node id separated them.
C3_Witness ==
    /\ Scheduled
    /\ IsOk(last.result)
    /\ \E n \in Eligible \ last.result.ok :
          LET w == OkNode(last.result)
          IN /\ get_node_affinity(context, n) = get_node_affinity(context, w)
             /\ get_node_attachments(context, n) = get_node_attachments(context, w)
             /\ NodeScore(nodes[n]) = NodeScore(nodes[w])
             /\ nodes[n].attached_shard_count = nodes[w].attached_shard_count

\* C10: schedule_shard returns NoPageservers exactly when the node table is
\* empty, whatever hard_exclude and the context are.
C10_NoPageservers ==
    Scheduled => (last.result = Err("NoPageservers") <=> DOMAIN nodes = {})

\* C10 witness: a call on an empty table with a non-empty hard_exclude and a
\* non-empty context returned NoPageservers.
C10_Witness ==
    /\ Scheduled
    /\ DOMAIN nodes = {}
    /\ hard_exclude # {}
    /\ DOMAIN context.nodes # {}
    /\ last.result = Err("NoPageservers")

----------------------------------------------------------------------------
(* Spec: the scheduler maintained by the node registry and the shard store. *)
(* Every intent change is committed together with its update_ref_counts,    *)
(* every registry change with its node_upsert or node_remove, and a node is *)
(* removed only when no intent names it.                                    *)

\* The registries the scheduler can be built from
Registries == UNION {[keys -> MayScheduleValues] : keys \in SUBSET NodeIds}

Init ==
    /\ registry \in Registries
    /\ nodes = new(registry)
    /\ intents = [s \in Shards |-> EmptyIntent]
    /\ start = Unused
    /\ context = DefaultContext
    /\ hard_exclude = {}
    /\ writer = Unused
    /\ calls = Unused
    /\ removed = Unused
    /\ local_pool = Unused
    /\ postgres = Unused
    /\ reader = Unused
    /\ last = NoOp

\* The shard store commits `intent` for shard s and reports `update` on node_id
Commit(s, intent, node_id, update) ==
    /\ intents' = [intents EXCEPT ![s] = intent]
    /\ nodes' = update_node_ref_counts(nodes, node_id, update)
    /\ last' = [op |-> "update_node_ref_counts", node_id |-> node_id,
                update |-> update, shard |-> s]
    /\ UNCHANGED <<registry, start, context, hard_exclude, writer, calls, removed,
                 local_pool, postgres, reader>>

\* The shard gets an attached location on a node it does not use yet
Attach(s, n) ==
    /\ n \in DOMAIN nodes
    /\ intents[s].attached = {}
    /\ n \notin intents[s].secondary
    /\ Commit(s, [intents[s] EXCEPT !.attached = {n}], n, "Attach")

\* The shard gives up its attached location
Detach(s) ==
    /\ intents[s].attached # {}
    /\ LET n == CHOOSE x \in intents[s].attached : TRUE
       IN Commit(s, [intents[s] EXCEPT !.attached = {}], n, "Detach")

\* The shard gets a secondary location on a node it does not use yet
AddSecondary(s, n) ==
    /\ n \in DOMAIN nodes
    /\ n \notin all_pageservers(intents[s])
    /\ Commit(s, [intents[s] EXCEPT !.secondary = @ \cup {n}], n, "AddSecondary")

\* The shard gives up a secondary location
RemoveSecondary(s, n) ==
    /\ n \in intents[s].secondary
    /\ Commit(s, [intents[s] EXCEPT !.secondary = @ \ {n}], n, "RemoveSecondary")

\* A secondary location of a shard without attached location becomes attached
PromoteSecondary(s, n) ==
    /\ n \in intents[s].secondary
    /\ intents[s].attached = {}
    /\ Commit(s, [attached |-> {n}, secondary |-> intents[s].secondary \ {n}],
              n, "PromoteSecondary")

\* The attached location of a shard becomes a secondary location
DemoteAttached(s) ==
    /\ intents[s].attached # {}
    /\ LET n == CHOOSE x \in intents[s].attached : TRUE
       IN Commit(s, [attached |-> {}, secondary |-> intents[s].secondary \cup {n}],
                 n, "DemoteAttached")

\* The registry learns a node or a new state of a node and upserts it
NodeUpsert(n, may_schedule) ==
    /\ registry' = Put(registry, n, may_schedule)
    /\ nodes' = node_upsert(nodes, n, may_schedule)
    /\ last' = [op |-> "node_upsert", node_id |-> n]
    /\ UNCHANGED <<intents, start, context, hard_exclude, writer, calls, removed,
                 local_pool, postgres, reader>>

\* The registry drops a node that no intent names any more
NodeRemove(n) ==
    /\ n \notin Referenced(intents)
    /\ registry' = Remove(registry, n)
    /\ nodes' = node_remove(nodes, n)
    /\ last' = [op |-> "node_remove", node_id |-> n]
    /\ UNCHANGED <<intents, start, context, hard_exclude, writer, calls, removed,
                 local_pool, postgres, reader>>

Next ==
    \/ \E s \in Shards, n \in NodeIds : Attach(s, n)
    \/ \E s \in Shards : Detach(s)
    \/ \E s \in Shards, n \in NodeIds : AddSecondary(s, n)
    \/ \E s \in Shards, n \in NodeIds : RemoveSecondary(s, n)
    \/ \E s \in Shards, n \in NodeIds : PromoteSecondary(s, n)
    \/ \E s \in Shards : DemoteAttached(s)
    \/ \E n \in NodeIds, m \in MayScheduleValues : NodeUpsert(n, m)
    \/ \E n \in NodeIds : NodeRemove(n)

Spec == Init /\ [][Next]_vars

----------------------------------------------------------------------------
(* Properties of the node table, checked under Spec and SpecSchedule *)

\* The two counters of a node
Counters(node) == <<node.shard_count, node.attached_shard_count>>

\* C4: a schedule_shard call, whether it returns a node or an error, leaves
\* the set of known nodes and every node's shard_count and
\* attached_shard_count as they were.
C4_ScheduleKeepsCounters ==
    [][last'.op = "schedule_shard"
         => /\ DOMAIN nodes' = DOMAIN nodes
            /\ \A n \in DOMAIN nodes : Counters(nodes'[n]) = Counters(nodes[n])]_vars

\* C4 witness: a call returned a node of a table with non-zero counters and
\* memoised the returned node's utilization score on the way.
C4_Witness ==
    /\ Scheduled
    /\ IsOk(last.result)
    /\ nodes[OkNode(last.result)].may_schedule.u.utilization_score # {}
    /\ \E n \in DOMAIN nodes : nodes[n].attached_shard_count > 0

\* Updated(n, u): the last operation was update_ref_counts(n, u) on a known node
Updated(n, update) ==
    /\ last.op = "update_node_ref_counts"
    /\ last.node_id = n
    /\ last.update = update
    /\ n \in DOMAIN nodes

\* C6: with every intent change paired with its update_ref_counts on a
\* scheduler built by new, consistency_check over the registry's nodes and
\* the shards succeeds.
C6_ConsistencyCheckSucceeds == IsOk(consistency_check(nodes, registry, intents))

\* C6 witness: after an update, both shards have an attached and a secondary
\* location.
C6_Witness ==
    /\ last.op = "update_node_ref_counts"
    /\ \A s \in Shards : intents[s].attached # {} /\ intents[s].secondary # {}

CounterDelta(update) ==
    CASE update = "Attach" -> <<1, 1>>
      [] update = "Detach" -> <<-1, -1>>
      [] update = "AddSecondary" -> <<1, 0>>
      [] update = "RemoveSecondary" -> <<-1, 0>>
      [] update = "PromoteSecondary" -> <<0, 1>>
      [] update = "DemoteAttached" -> <<0, -1>>

\* C8: update_ref_counts on a known node changes that node's counters by
\* exactly the delta of the update and leaves every other node as it was.
C8_UpdateEffect ==
    [][(last'.op = "update_node_ref_counts" /\ last'.node_id \in DOMAIN nodes)
         => LET n == last'.node_id
                d == CounterDelta(last'.update)
            IN /\ DOMAIN nodes' = DOMAIN nodes
               /\ nodes'[n].shard_count = nodes[n].shard_count + d[1]
               /\ nodes'[n].attached_shard_count = nodes[n].attached_shard_count + d[2]
               /\ \A m \in DOMAIN nodes \ {n} : nodes'[m] = nodes[m]]_vars

\* C8 witness: a Detach took a node back to no locations while another node
\* of the table holds locations.
C8_Witness ==
    \E n \in NodeIds :
        /\ Updated(n, "Detach")
        /\ Counters(nodes[n]) = <<0, 0>>
        /\ \E m \in DOMAIN nodes \ {n} : nodes[m].shard_count > 0

\* C9: Attach and AddSecondary on a schedulable node leave the utilization's
\* shard count at or above the node's new shard_count; Detach,
\* RemoveSecondary and DemoteAttached leave the utilization as it was; and no
\* step other than a node_upsert of the node lowers its utilization's shard
\* count.
C9_UtilizationAsymmetry ==
    [][/\ (last'.op = "update_node_ref_counts" /\ last'.node_id \in DOMAIN nodes)
          => LET n == last'.node_id
             IN /\ (last'.update \in {"Attach", "AddSecondary"}
                      /\ nodes'[n].may_schedule.tag = "Yes")
                     => nodes'[n].may_schedule.u.shard_count >= nodes'[n].shard_count
                /\ last'.update \in {"Detach", "RemoveSecondary", "DemoteAttached"}
                     => nodes'[n].may_schedule = nodes[n].may_schedule
       /\ \A n \in DOMAIN nodes \cap DOMAIN nodes' :
             (/\ ~(last'.op = "node_upsert" /\ last'.node_id = n)
              /\ nodes[n].may_schedule.tag = "Yes"
              /\ nodes'[n].may_schedule.tag = "Yes")
                => nodes'[n].may_schedule.u.shard_count >= nodes[n].may_schedule.u.shard_count
      ]_vars

\* C9 witness: after a Detach the utilization still carries the shard count
\* an earlier Attach or AddSecondary raised it to, above both the node's
\* shard_count and the count the registry reported.
C9_Witness ==
    \E n \in NodeIds :
        /\ Updated(n, "Detach")
        /\ nodes[n].may_schedule.tag = "Yes"
        /\ registry[n].tag = "Yes"
        /\ nodes[n].may_schedule.u.shard_count > nodes[n].shard_count
        /\ nodes[n].may_schedule.u.shard_count > registry[n].u.shard_count

----------------------------------------------------------------------------
(* SpecConserve: the scheduler as the start-up leaves it for any stored     *)
(* intents, followed by intent changes paired with update_ref_counts        *)

\* The intents a shard can have
IntentStates ==
    {i \in [attached : {{}} \cup {{n} : n \in NodeIds}, secondary : SUBSET NodeIds] :
        i.attached \cap i.secondary = {}}

\* The start-up replay of the intents of shards 1..k: one Attach per attached
\* location and one AddSecondary per secondary location
RECURSIVE ReplaySecondaries(_, _)
ReplaySecondaries(nds, secondaries) ==
    IF secondaries = {}
    THEN nds
    ELSE LET n == CHOOSE x \in secondaries : TRUE
         IN ReplaySecondaries(update_node_ref_counts(nds, n, "AddSecondary"),
                              secondaries \ {n})

RECURSIVE Replay(_, _, _)
Replay(nds, its, k) ==
    IF k = 0
    THEN nds
    ELSE LET before == Replay(nds, its, k - 1)
             attached == IF its[k].attached = {}
                         THEN before
                         ELSE update_node_ref_counts(
                                  before, CHOOSE x \in its[k].attached : TRUE, "Attach")
         IN ReplaySecondaries(attached, its[k].secondary)

\* The registries of SpecConserve: every node known, fresh utilizations
ConserveRegistries == [NodeIds -> {No, Yes(Utilization(0, 0))}]

InitConserve ==
    /\ registry \in ConserveRegistries
    /\ intents \in [Shards -> IntentStates]
    /\ nodes = Replay(new(registry), intents, MaxShard)
    /\ start = [intents |-> intents, nodes |-> nodes]
    /\ context = DefaultContext
    /\ hard_exclude = {}
    /\ writer = Unused
    /\ calls = Unused
    /\ removed = Unused
    /\ local_pool = Unused
    /\ postgres = Unused
    /\ reader = Unused
    /\ last = NoOp

NextConserve ==
    \/ \E s \in Shards, n \in NodeIds : Attach(s, n)
    \/ \E s \in Shards : Detach(s)
    \/ \E s \in Shards, n \in NodeIds : AddSecondary(s, n)
    \/ \E s \in Shards, n \in NodeIds : RemoveSecondary(s, n)
    \/ \E s \in Shards, n \in NodeIds : PromoteSecondary(s, n)
    \/ \E s \in Shards : DemoteAttached(s)

SpecConserve == InitConserve /\ [][NextConserve]_vars

\* its1 and its2 hold the same intents, possibly on different shards
SameMultiset(its1, its2) ==
    \E p \in Permutations(Shards) : \A s \in Shards : its1[p[s]] = its2[s]

\* C5: whenever the intents are, as a multiset, what they were at the start,
\* every node's shard_count and attached_shard_count are what they were at
\* the start.
C5_CounterConservation ==
    SameMultiset(intents, start.intents)
        => \A n \in DOMAIN nodes : Counters(nodes[n]) = Counters(start.nodes[n])

\* C5 witness: after updates the two shards have exchanged their differing,
\* non-empty intents.
C5_Witness ==
    /\ last.op = "update_node_ref_counts"
    /\ intents # start.intents
    /\ SameMultiset(intents, start.intents)
    /\ \A s \in Shards : all_pageservers(intents[s]) # {}

----------------------------------------------------------------------------
(* Further properties of schedule_shard, checked under SpecSchedule *)

\* C11: on a non-empty node table schedule_shard returns ImpossibleConstraint
\* exactly when every node is in hard_exclude or has may_schedule No; when
\* some node is schedulable and not excluded it returns a node, also when
\* every such node is overloaded.
C11_ImpossibleConstraint ==
    (Scheduled /\ DOMAIN nodes # {})
        => /\ last.result = Err("ImpossibleConstraint") <=> Eligible = {}
           /\ Eligible # {} => (IsOk(last.result) /\ OkNode(last.result) \in Eligible)

\* C11 witness: a call returned a node although every schedulable node outside
\* hard_exclude is overloaded, next to an excluded and an unschedulable case.
C11_Witness ==
    /\ Scheduled
    /\ IsOk(last.result)
    /\ \A n \in Eligible : is_overloaded(NodeScore(nodes[n]))
    /\ \E n \in DOMAIN nodes \ Eligible :
          n \in hard_exclude \/ nodes[n].may_schedule.tag = "No"

\* Ok, or the ScheduleError of a result
ResultKind(r) == IF IsOk(r) THEN "Ok" ELSE CHOOSE e \in r.err : TRUE

\* C12: for the table and hard_exclude of a call, the call succeeds or fails,
\* and fails with the same error, as a call with the default (empty) context
\* does: all contexts agree on success and on the error.
C12_ContextIsSoft ==
    Scheduled =>
        \A order \in IterationOrders(DOMAIN nodes) :
            ResultKind(schedule_shard(last.tag, nodes, order, hard_exclude,
                                      DefaultContext).result)
                = ResultKind(last.result)

\* C12 witness: a call returned a node although the context avoids every
\* schedulable node outside hard_exclude and the returned node carries the
\* highest affinity score and an attachment in the context.
C12_Witness ==
    /\ Scheduled
    /\ IsOk(last.result)
    /\ \A n \in Eligible : get_node_affinity(context, n) > FREE
    /\ get_node_affinity(context, OkNode(last.result)) = MaxAffinity
    /\ get_node_attachments(context, OkNode(last.result)) > 0

\* C13: a node id returned by schedule_shard is a key of the node table whose
\* may_schedule is Yes.
C13_ReturnsSchedulableNode ==
    (Scheduled /\ IsOk(last.result))
        => /\ OkNode(last.result) \in DOMAIN nodes
           /\ nodes[OkNode(last.result)].may_schedule.tag = "Yes"

\* C13 witness: a call returned a node although a node with may_schedule No,
\* outside hard_exclude, has a lower id, a lower affinity score, no attachment
\* in the context and no more attached shards than the returned node.
C13_Witness ==
    /\ Scheduled
    /\ IsOk(last.result)
    /\ \E n \in DOMAIN nodes \ hard_exclude :
          LET w == OkNode(last.result)
          IN /\ nodes[n].may_schedule.tag = "No"
             /\ n < w
             /\ get_node_affinity(context, n) < get_node_affinity(context, w)
             /\ get_node_attachments(context, n) = 0
             /\ nodes[n].attached_shard_count <= nodes[w].attached_shard_count
             /\ nodes[n].shard_count = 0

\* The candidates left after hard exclusion and the overload filter: the
\* eligible nodes that are not overloaded, or all eligible nodes when every
\* one of them is overloaded
Retained ==
    LET fit == {n \in Eligible : ~is_overloaded(NodeScore(nodes[n]))}
    IN IF fit # {} THEN fit ELSE Eligible

\* Node n comes before node m in the order of the attached score: affinity
\* score, attached shards in context, utilization score, attached shard count,
\* node id, the first that differs deciding
AttachedBefore(n, m) ==
    LET a(x) == get_node_affinity(context, x)
        b(x) == get_node_attachments(context, x)
        u(x) == NodeScore(nodes[x])
        t(x) == nodes[x].attached_shard_count
    IN \/ a(n) < a(m)
       \/ a(n) = a(m) /\ b(n) < b(m)
       \/ a(n) = a(m) /\ b(n) = b(m) /\ u(n) < u(m)
       \/ a(n) = a(m) /\ b(n) = b(m) /\ u(n) = u(m) /\ t(n) < t(m)
       \/ a(n) = a(m) /\ b(n) = b(m) /\ u(n) = u(m) /\ t(n) = t(m) /\ n < m

\* C14: schedule_shard for the attached tag returns the retained candidate
\* that comes before every other retained candidate in the order (affinity
\* score, attached shards in context, utilization score, attached shard
\* count, node id).
C14_AttachedMinimum ==
    (Scheduled /\ last.tag = "AttachedShardTag" /\ Retained # {})
        => /\ IsOk(last.result)
           /\ OkNode(last.result) \in Retained
           /\ \A m \in Retained \ last.result.ok : AttachedBefore(OkNode(last.result), m)

\* C14 witness: the attached call returned a node with more attached shards
\* than another retained candidate because its utilization score is lower,
\* affinity and attachments in the context being equal.
C14_Witness ==
    /\ Scheduled
    /\ last.tag = "AttachedShardTag"
    /\ IsOk(last.result)
    /\ \E m \in Retained :
          LET w == OkNode(last.result)
          IN /\ get_node_affinity(context, m) = get_node_affinity(context, w)
             /\ get_node_attachments(context, m) = get_node_attachments(context, w)
             /\ NodeScore(nodes[w]) < NodeScore(nodes[m])
             /\ nodes[w].attached_shard_count > nodes[m].attached_shard_count

\* Node n comes before node m in the order of the secondary score: affinity
\* score, utilization score, attached shard count, node id
SecondaryBefore(n, m) ==
    LET a(x) == get_node_affinity(context, x)
        u(x) == NodeScore(nodes[x])
        t(x) == nodes[x].attached_shard_count
    IN \/ a(n) < a(m)
       \/ a(n) = a(m) /\ u(n) < u(m)
       \/ a(n) = a(m) /\ u(n) = u(m) /\ t(n) < t(m)
       \/ a(n) = a(m) /\ u(n) = u(m) /\ t(n) = t(m) /\ n < m

\* The maps context.attached_nodes can be within the bounds
AttachedNodesMaps == {Sparse(b) : b \in [NodeIds -> 0..MaxAttachedInContext]}

\* C15: schedule_shard for the secondary tag returns the retained candidate
\* that comes first in the order (affinity score, utilization score, attached
\* shard count, node id), and returns the same result whatever
\* context.attached_nodes holds.
C15_SecondaryIgnoresAttached ==
    (Scheduled /\ last.tag = "SecondaryShardTag")
        => /\ Retained # {}
              => /\ IsOk(last.result)
                 /\ OkNode(last.result) \in Retained
                 /\ \A m \in Retained \ last.result.ok :
                       SecondaryBefore(OkNode(last.result), m)
           /\ \A b \in AttachedNodesMaps, order \in IterationOrders(DOMAIN nodes) :
                 schedule_shard("SecondaryShardTag", nodes, order, hard_exclude,
                                [context EXCEPT !.attached_nodes = b]).result
                     = last.result

\* C15 witness: the secondary call returned a node that has an attachment in
\* the context while another retained candidate with the same affinity score
\* has none, so that the attached order would have preferred the other one.
C15_Witness ==
    /\ Scheduled
    /\ last.tag = "SecondaryShardTag"
    /\ IsOk(last.result)
    /\ \E m \in Retained :
          LET w == OkNode(last.result)
          IN /\ get_node_affinity(context, m) = get_node_affinity(context, w)
             /\ get_node_attachments(context, m) < get_node_attachments(context, w)
             /\ AttachedBefore(m, w)

\* The context with the affinity score of node n set to a (an entry of score
\* FREE is an absent entry)
WithAffinity(ctx, n, a) ==
    [ctx EXCEPT !.nodes = IF a = FREE THEN Remove(@, n) ELSE Put(@, n, a)]

\* C16: if a call returns node n, then the same call with n's affinity score
\* lowered, everything else being equal, returns n as well: raising a node's
\* affinity score never makes schedule_shard return it where it did not
\* before.
C16_AffinityMonotonic ==
    (Scheduled /\ IsOk(last.result))
        => LET n == OkNode(last.result)
           IN \A a \in 0..MaxAffinity, order \in IterationOrders(DOMAIN nodes) :
                 a < get_node_affinity(context, n)
                     => schedule_shard(last.tag, nodes, order, hard_exclude,
                                       WithAffinity(context, n, a)).result = Ok(n)

\* C16 witness: a call returned a node other than a retained candidate m
\* whose affinity score is above FREE, and with m's affinity score lowered to
\* FREE the call returns m: the raise took the placement away from m.
C16_Witness ==
    /\ Scheduled
    /\ IsOk(last.result)
    /\ \E m \in Retained \ last.result.ok :
          /\ get_node_affinity(context, m) > FREE
          /\ \A order \in IterationOrders(DOMAIN nodes) :
                schedule_shard(last.tag, nodes, order, hard_exclude,
                               WithAffinity(context, m, FREE)).result = Ok(m)

----------------------------------------------------------------------------
(* SpecRoundRobin: nodes that are all schedulable with the same utilization *)
(* and no locations; attached placements with the default context, each     *)
(* followed by the Attach of the returned node (tests::scheduler_utilization) *)

\* Node ids of SpecRoundRobin are 1..MaxRoundRobinNode
MaxRoundRobinNode == 3
\* Number of placements made in SpecRoundRobin
MaxRoundRobinCalls == 6

\* The registries of SpecRoundRobin: a non-empty set of nodes, all with the
\* same reported utilization
RoundRobinRegistries ==
    {[n \in keys |-> Yes(u)] :
        keys \in (SUBSET (1..MaxRoundRobinNode)) \ {{}}, u \in ReportedUtilizations}

\* intents is the Vec of the intents placed so far (scheduled_intents)
InitRoundRobin ==
    /\ registry \in RoundRobinRegistries
    /\ nodes = new(registry)
    /\ intents = <<>>
    /\ start = Unused
    /\ context = DefaultContext
    /\ hard_exclude = {}
    /\ writer = Unused
    /\ calls = Unused
    /\ removed = Unused
    /\ local_pool = Unused
    /\ postgres = Unused
    /\ reader = Unused
    /\ last = NoOp

\* schedule_shard::<AttachedShardTag>(&[], context) for the next intent
RoundRobinSchedule ==
    /\ last.op # "schedule_shard"
    /\ Len(intents) < MaxRoundRobinCalls
    /\ \E order \in IterationOrders(DOMAIN nodes) :
          LET r == schedule_shard("AttachedShardTag", nodes, order, hard_exclude, context)
          IN /\ nodes' = r.nodes
             /\ last' = [op |-> "schedule_shard", tag |-> "AttachedShardTag",
                         result |-> r.result]
    /\ UNCHANGED <<registry, intents, start, context, hard_exclude, writer, calls, removed,
                 local_pool, postgres, reader>>

\* intent.set_attached(scheduler, Some(scheduled)) on a new intent, which
\* reports Attach on the scheduled node, and scheduled_intents.push(intent)
RoundRobinAttach ==
    /\ last.op = "schedule_shard"
    /\ IsOk(last.result)
    /\ LET n == OkNode(last.result)
       IN /\ nodes' = update_node_ref_counts(nodes, n, "Attach")
          /\ intents' = Append(intents, [EmptyIntent EXCEPT !.attached = {n}])
          /\ last' = [op |-> "update_node_ref_counts", node_id |-> n,
                      update |-> "Attach", shard |-> Len(intents) + 1]
    /\ UNCHANGED <<registry, start, context, hard_exclude, writer, calls, removed,
                 local_pool, postgres, reader>>

NextRoundRobin == RoundRobinSchedule \/ RoundRobinAttach

SpecRoundRobin == InitRoundRobin /\ [][NextRoundRobin]_vars

\* The i-th node id of keys in ascending order, counting round and round
Ascending(keys, i) ==
    LET k == ((i - 1) % Cardinality(keys)) + 1
    IN CHOOSE n \in keys : Cardinality({m \in keys : m < n}) = k - 1

\* C17: the i-th placement goes to the i-th node in ascending node-id order,
\* starting again from the lowest id after the highest, and the attached
\* counts of two nodes never differ by more than one.
C17_RoundRobin ==
    /\ \A i \in 1..Len(intents) : intents[i].attached = {Ascending(DOMAIN nodes, i)}
    /\ last.op = "schedule_shard"
          => last.result = Ok(Ascending(DOMAIN nodes, Len(intents) + 1))
    /\ \A n, m \in DOMAIN nodes :
          nodes[n].attached_shard_count - nodes[m].attached_shard_count <= 1

\* C17 witness: three nodes have taken two placements each, the fourth
\* placement having gone to node 1 again.
C17_Witness ==
    /\ DOMAIN nodes = 1..3
    /\ Len(intents) = 6
    /\ intents[4].attached = {1}
    /\ \A n \in DOMAIN nodes : nodes[n].attached_shard_count = 2

----------------------------------------------------------------------------
(* SpecCalls: the mutating operations of the scheduler called with any      *)
(* arguments, in any order, on a scheduler built by new.  Updates that      *)
(* would take a counter of a known node outside 0..MaxCallCount are left    *)
(* out.                                                                     *)

\* Largest per-node counter reached by the calls of SpecCalls and SpecQueries
MaxCallCount == 2

InitCalls ==
    /\ nodes \in {new(reg) : reg \in Registries}
    /\ registry = Unused
    /\ intents = Unused
    /\ start = Unused
    /\ context = DefaultContext
    /\ hard_exclude = {}
    /\ writer = Unused
    /\ calls = Unused
    /\ removed = Unused
    /\ local_pool = Unused
    /\ postgres = Unused
    /\ reader = Unused
    /\ last = NoOp

\* update_node_ref_counts(node_id, update), node_id known or not
CallUpdateRefCounts(node_id, update) ==
    LET after == update_node_ref_counts(nodes, node_id, update)
    IN /\ node_id \in DOMAIN nodes
            => /\ after[node_id].shard_count <= MaxCallCount
               /\ after[node_id].attached_shard_count <= MaxCallCount
       /\ nodes' = after
       /\ last' = [op |-> "update_node_ref_counts", node_id |-> node_id,
                   update |-> update, known |-> node_id \in DOMAIN nodes]
       /\ UNCHANGED <<registry, intents, start, context, hard_exclude, writer, calls, removed,
                 local_pool, postgres, reader>>

\* node_upsert(node) for a node with the given id and may_schedule()
CallNodeUpsert(node_id, may_schedule) ==
    /\ nodes' = node_upsert(nodes, node_id, may_schedule)
    /\ last' = [op |-> "node_upsert", node_id |-> node_id,
                may_schedule |-> may_schedule, known |-> node_id \in DOMAIN nodes]
    /\ UNCHANGED <<registry, intents, start, context, hard_exclude, writer, calls, removed,
                 local_pool, postgres, reader>>

\* node_remove(node_id), node_id known or not
CallNodeRemove(node_id) ==
    /\ nodes' = node_remove(nodes, node_id)
    /\ last' = [op |-> "node_remove", node_id |-> node_id,
                known |-> node_id \in DOMAIN nodes]
    /\ UNCHANGED <<registry, intents, start, context, hard_exclude, writer, calls, removed,
                 local_pool, postgres, reader>>

NextCalls ==
    \/ \E n \in NodeIds, update \in RefCountUpdates : CallUpdateRefCounts(n, update)
    \/ \E n \in NodeIds, m \in MayScheduleValues : CallNodeUpsert(n, m)
    \/ \E n \in NodeIds : CallNodeRemove(n)

SpecCalls == InitCalls /\ [][NextCalls]_vars

\* C18: update_ref_counts with a node id that is not in the table, for any of
\* the six updates, leaves the node table exactly as it was.
C18_UnknownNodeIgnored ==
    [][(last'.op = "update_node_ref_counts" /\ last'.node_id \notin DOMAIN nodes)
         => nodes' = nodes]_vars

\* C18 witness: a Detach named a node that is not in the table while another
\* node of the table holds an attached location.
C18_Witness ==
    /\ last.op = "update_node_ref_counts"
    /\ last.update = "Detach"
    /\ ~last.known
    /\ last.node_id \notin DOMAIN nodes
    /\ \E m \in DOMAIN nodes : nodes[m].attached_shard_count > 0

\* C19: node_upsert of a known node stores the new may_schedule, Yes or No,
\* with the utilization's shard count raised to the node's shard_count when
\* that is larger, and keeps the node's two counters; node_upsert of an
\* unknown node inserts it with both counters 0 and the may_schedule as
\* given; every other node stays as it was.
C19_UpsertEffect ==
    [][last'.op = "node_upsert"
         => LET n == last'.node_id
                m == last'.may_schedule
            IN /\ DOMAIN nodes' = DOMAIN nodes \cup {n}
               /\ \A k \in DOMAIN nodes \ {n} : nodes'[k] = nodes[k]
               /\ n \notin DOMAIN nodes => nodes'[n] = SchedulerNode(0, 0, m)
               /\ n \in DOMAIN nodes
                    => /\ Counters(nodes'[n]) = Counters(nodes[n])
                       /\ nodes'[n].may_schedule.tag = m.tag
                       /\ m.tag = "Yes"
                            => /\ nodes'[n].may_schedule.u.shard_count
                                    = Max(m.u.shard_count, nodes[n].shard_count)
                               /\ nodes'[n].may_schedule.u.disk_score = m.u.disk_score]_vars

\* C19 witness: a known node that holds more locations than its pageserver
\* reports, one of them attached, was upserted with may_schedule Yes and its
\* utilization carries the node's shard_count.
C19_Witness ==
    /\ last.op = "node_upsert"
    /\ last.known
    /\ last.may_schedule.tag = "Yes"
    /\ nodes[last.node_id].attached_shard_count > 0
    /\ nodes[last.node_id].shard_count > last.may_schedule.u.shard_count
    /\ nodes[last.node_id].may_schedule.u.shard_count = nodes[last.node_id].shard_count

\* C20: node_remove(id) takes the entry of id out of the table and leaves
\* every other entry as it was; for an id that is not in the table the table
\* stays as it was.
C20_RemoveEffect ==
    [][last'.op = "node_remove"
         => /\ DOMAIN nodes' = DOMAIN nodes \ {last'.node_id}
            /\ \A k \in DOMAIN nodes' : nodes'[k] = nodes[k]
            /\ last'.node_id \notin DOMAIN nodes => nodes' = nodes]_vars

\* C20 witness: a known node was removed and the node that stays holds an
\* attached location.
C20_Witness ==
    /\ last.op = "node_remove"
    /\ last.known
    /\ last.node_id \notin DOMAIN nodes
    /\ \E k \in DOMAIN nodes : nodes[k].attached_shard_count > 0

----------------------------------------------------------------------------
(* SpecQueries: the operations of SpecCalls together with the read-only     *)
(* operations of the scheduler, called with any arguments in any order.  A  *)
(* panic unwinds out of the call and leaves the scheduler as it was.        *)

\* Longest node list passed to node_preferred
MaxListLen == 2

\* The node lists passed to node_preferred
NodeLists == UNION {[1..len -> NodeIds] : len \in 0..MaxListLen}

\* compute_fill_requirement(node_id), node_id known or not
CallComputeFillRequirement(node_id) ==
    /\ last' = [op |-> "compute_fill_requirement", node_id |-> node_id,
                result |-> compute_fill_requirement(nodes, node_id)]
    /\ UNCHANGED <<nodes, registry, intents, start, context, hard_exclude, writer, calls, removed,
                 local_pool, postgres, reader>>

\* expected_attached_shard_count()
CallExpectedAttachedShardCount ==
    /\ last' = [op |-> "expected_attached_shard_count",
                result |-> expected_attached_shard_count(nodes)]
    /\ UNCHANGED <<nodes, registry, intents, start, context, hard_exclude, writer, calls, removed,
                 local_pool, postgres, reader>>

\* nodes_by_attached_shard_count()
CallNodesByAttachedShardCount ==
    /\ \E order \in IterationOrders(DOMAIN nodes) :
          last' = [op |-> "nodes_by_attached_shard_count",
                   result |-> Ok(nodes_by_attached_shard_count(nodes, order))]
    /\ UNCHANGED <<nodes, registry, intents, start, context, hard_exclude, writer, calls, removed,
                 local_pool, postgres, reader>>

\* node_preferred(list)
CallNodePreferred(list) ==
    /\ last' = [op |-> "node_preferred", list |-> list,
                result |-> Ok(node_preferred(nodes, list))]
    /\ UNCHANGED <<nodes, registry, intents, start, context, hard_exclude, writer, calls, removed,
                 local_pool, postgres, reader>>

NextQueries ==
    \/ \E n \in NodeIds, update \in RefCountUpdates : CallUpdateRefCounts(n, update)
    \/ \E n \in NodeIds, m \in MayScheduleValues : CallNodeUpsert(n, m)
    \/ \E n \in NodeIds : CallNodeRemove(n)
    \/ \E n \in NodeIds : CallComputeFillRequirement(n)
    \/ CallExpectedAttachedShardCount
    \/ CallNodesByAttachedShardCount
    \/ \E list \in NodeLists : CallNodePreferred(list)

SpecQueries == InitCalls /\ [][NextQueries]_vars

\* The last call panicked
Panicked == "result" \in DOMAIN last /\ IsPanic(last.result)

\* C21 as claimed: no operation other than schedule_shard and
\* consistency_check panics, whatever the state, the empty table included.
C21_NeverPanics == ~Panicked

\* C21 as amended: the only call that panics is expected_attached_shard_count
\* on an empty node table; every other call, and that call on a non-empty
\* table, completes.
C21_PanicsOnlyOnEmptyAverage ==
    /\ Panicked => (last.op = "expected_attached_shard_count" /\ DOMAIN nodes = {})
    /\ \A n \in NodeIds : ~IsPanic(compute_fill_requirement(nodes, n))
    /\ DOMAIN nodes # {} => ~IsPanic(expected_attached_shard_count(nodes))

\* C21 witness: compute_fill_requirement was called on a scheduler whose node
\* table is empty and returned 0.
C21_Witness ==
    /\ last.op = "compute_fill_requirement"
    /\ DOMAIN nodes = {}
    /\ last.result = Ok(0)

----------------------------------------------------------------------------
(* SpecCheck: consistency_check called on any node table with any supplied  *)
(* nodes and any shards, in agreement or not                                *)

\* The entries of the tables of SpecCheck
CheckNodes ==
    {SchedulerNode(sc, at, m) :
        sc \in 0..MaxCount, at \in 0..MaxCount, m \in {No, Yes(Utilization(0, 0))}}

\* The node tables of SpecCheck
CheckTables == UNION {[keys -> CheckNodes] : keys \in SUBSET NodeIds}

\* The nodes supplied to consistency_check: what may_schedule() returns for each
CheckRegistries ==
    UNION {[keys -> {No, Yes(Utilization(0, 0)), Yes(Utilization(1, UTILIZATION_FULL))}] :
            keys \in SUBSET NodeIds}

InitCheck ==
    /\ nodes \in CheckTables
    /\ registry \in CheckRegistries
    /\ intents \in [Shards -> IntentStates]
    /\ start = Unused
    /\ context = DefaultContext
    /\ hard_exclude = {}
    /\ writer = Unused
    /\ calls = Unused
    /\ removed = Unused
    /\ local_pool = Unused
    /\ postgres = Unused
    /\ reader = Unused
    /\ last = NoOp

\* consistency_check(nodes, shards) with the registry's nodes and all shards
ConsistencyCheck ==
    /\ last' = [op |-> "consistency_check",
                result |-> consistency_check(nodes, registry, intents)]
    /\ UNCHANGED <<nodes, registry, intents, start, context, hard_exclude, writer, calls, removed,
                 local_pool, postgres, reader>>

NextCheck == ConsistencyCheck

SpecCheck == InitCheck /\ [][NextCheck]_vars

\* Some node of the table has a counter that differs from the count the
\* intents give: one location per secondary or attached reference, one
\* attachment per attached reference
CounterMismatch ==
    \E n \in DOMAIN nodes :
        \/ nodes[n].shard_count # CountAttached(intents, n) + CountSecondary(intents, n)
        \/ nodes[n].attached_shard_count # CountAttached(intents, n)

\* Some intent names a node that is not among the supplied nodes
DanglingReference == \E n \in Referenced(intents) : n \notin DOMAIN registry

\* C22: consistency_check leaves the node table as it was, and returns an
\* error whenever a counter of a node of the table differs from the count
\* the intents give or an intent names a node that was not supplied.
C22_CheckDetects ==
    [][last'.op = "consistency_check"
         => /\ nodes' = nodes
            /\ (CounterMismatch \/ DanglingReference) => ~IsOk(last'.result)]_vars

\* C22 witness: the check failed on a table in which a node counts an attached
\* location that no intent holds, the supplied nodes being the table's nodes
\* with the same may_schedule variants.
C22_Witness ==
    /\ last.op = "consistency_check"
    /\ ~IsOk(last.result)
    /\ \A s \in Shards : intents[s] = EmptyIntent
    /\ DOMAIN registry = DOMAIN nodes
    /\ \A n \in DOMAIN nodes : registry[n].tag = nodes[n].may_schedule.tag
    /\ \E n \in DOMAIN nodes : Counters(nodes[n]) = <<1, 1>>
    /\ \A n \in DOMAIN nodes : nodes[n].shard_count = nodes[n].attached_shard_count

----------------------------------------------------------------------------
(* Properties of the read-only operations, checked under SpecQueries *)

\* The members of a list
Members(list) == {list[i] : i \in DOMAIN list}

\* The nodes of the table that may be scheduled on
Schedulable == {n \in DOMAIN nodes : nodes[n].may_schedule.tag = "Yes"}

\* C23: node_preferred leaves the scheduler as it was; a node it returns is a
\* member of the list, in the node table and with may_schedule Yes; it
\* returns None exactly when the list has no such member (an empty list has
\* none).
C23_NodePreferred ==
    [][last'.op = "node_preferred"
         => LET r == OkNode(last'.result)
                fit == Members(last'.list) \cap Schedulable
            IN /\ nodes' = nodes
               /\ r \subseteq fit
               /\ Cardinality(r) <= 1
               /\ r = {} <=> fit = {}]_vars

\* C23 witness: node_preferred returned the first member of a list whose
\* second member is a known node with may_schedule No.
C23_Witness ==
    /\ last.op = "node_preferred"
    /\ Len(last.list) = 2
    /\ last.result = Ok({last.list[1]})
    /\ last.list[2] \in DOMAIN nodes
    /\ nodes[last.list[2]].may_schedule.tag = "No"

\* The sum of the attached counts of all nodes of the table
RECURSIVE TotalAttached(_)
TotalAttached(keys) ==
    IF keys = {}
    THEN 0
    ELSE LET k == CHOOSE x \in keys : TRUE
         IN nodes[k].attached_shard_count + TotalAttached(keys \ {k})

\* C24: for a known node, compute_fill_requirement leaves the scheduler as it
\* was and returns expected_attached_shard_count() minus the node's attached
\* count, or 0 when that is negative; it returns 0 for a node whose attached
\* count is at or above the average of all nodes.
C24_FillRequirement ==
    [][(last'.op = "compute_fill_requirement" /\ last'.node_id \in DOMAIN nodes)
         => LET a == nodes[last'.node_id].attached_shard_count
                e == OkNode(expected_attached_shard_count(nodes))
            IN /\ nodes' = nodes
               /\ last'.result = Ok(Max(0, e - a))
               /\ a * Cardinality(DOMAIN nodes) >= TotalAttached(DOMAIN nodes)
                    => last'.result = Ok(0)]_vars

\* C24 witness: a node with no attached shards next to a node with two has a
\* fill requirement of one, also when the node may not be scheduled on.
C24_Witness ==
    /\ last.op = "compute_fill_requirement"
    /\ last.node_id \in DOMAIN nodes
    /\ nodes[last.node_id].attached_shard_count = 0
    /\ nodes[last.node_id].may_schedule.tag = "No"
    /\ \E m \in DOMAIN nodes : nodes[m].attached_shard_count = 2
    /\ last.result = Ok(1)

\* C25: on a non-empty table expected_attached_shard_count returns the sum of
\* the attached counts of all nodes, whatever their may_schedule, divided by
\* the number of all nodes, rounded down.
C25_ExpectedAttached ==
    (last.op = "expected_attached_shard_count" /\ DOMAIN nodes # {})
        => LET n == Cardinality(DOMAIN nodes)
               r == OkNode(last.result)
           IN /\ IsOk(last.result)
              /\ r * n <= TotalAttached(DOMAIN nodes)
              /\ TotalAttached(DOMAIN nodes) < (r + 1) * n

\* C25 witness: the average over a node with may_schedule No holding two
\* attached shards and a schedulable node holding one is 1: the division
\* rounds 3/2 down and the node with No counts on both sides.
C25_Witness ==
    /\ last.op = "expected_attached_shard_count"
    /\ last.result = Ok(1)
    /\ \E n, m \in DOMAIN nodes :
          /\ nodes[n].may_schedule.tag = "No"
          /\ nodes[n].attached_shard_count = 2
          /\ nodes[m].may_schedule.tag = "Yes"
          /\ nodes[m].attached_shard_count = 1

\* C26: nodes_by_attached_shard_count returns one pair for every node of the
\* table and no other pair, each pair holding the node's attached count, the
\* counts never increasing along the result.
C26_NodesByAttached ==
    last.op = "nodes_by_attached_shard_count"
        => LET r == OkNode(last.result)
           IN /\ Len(r) = Cardinality(DOMAIN nodes)
              /\ {r[i][1] : i \in DOMAIN r} = DOMAIN nodes
              /\ \A i \in DOMAIN r : r[i][2] = nodes[r[i][1]].attached_shard_count
              /\ \A i, j \in DOMAIN r : i < j => r[i][2] >= r[j][2]

\* C26 witness: the node with the higher id and the higher attached count
\* comes first in the result.
C26_Witness ==
    /\ last.op = "nodes_by_attached_shard_count"
    /\ IsOk(last.result)
    /\ LET r == OkNode(last.result)
       IN /\ Len(r) = 2
          /\ r[1][1] > r[2][1]
          /\ r[1][2] > r[2][2]
          /\ r[2][2] > 0

----------------------------------------------------------------------------
(* ScheduleContext updates: avoid and push_attached called in any order *)

InitContext ==
    /\ context \in {DefaultContext, [DefaultContext EXCEPT !.mode = "Speculative"]}
    /\ nodes = Unused
    /\ registry = Unused
    /\ intents = Unused
    /\ start = Unused
    /\ hard_exclude = {}
    /\ writer = Unused
    /\ calls = Unused
    /\ removed = Unused
    /\ local_pool = Unused
    /\ postgres = Unused
    /\ reader = Unused
    /\ last = NoOp

\* ctx.avoid(&list)
Avoid(list) ==
    LET after == avoid(context, list)
    IN /\ \A n \in DOMAIN after.nodes : after.nodes[n] <= MaxAffinity
       /\ context' = after
       /\ last' = [op |-> "avoid", list |-> list]
       /\ UNCHANGED <<nodes, registry, intents, start, hard_exclude, writer, calls, removed,
                 local_pool, postgres, reader>>

\* ctx.push_attached(node_id)
PushAttached(node_id) ==
    LET after == push_attached(context, node_id)
    IN /\ after.attached_nodes[node_id] <= MaxAttachedInContext
       /\ context' = after
       /\ last' = [op |-> "push_attached", node_id |-> node_id]
       /\ UNCHANGED <<nodes, registry, intents, start, hard_exclude, writer, calls, removed,
                 local_pool, postgres, reader>>

NextContext ==
    \/ \E list \in NodeLists : Avoid(list)
    \/ \E node_id \in NodeIds : PushAttached(node_id)

SpecContext == InitContext /\ [][NextContext]_vars

\* number of positions of list that hold node_id
Occurrences(list, node_id) == Cardinality({i \in DOMAIN list : list[i] = node_id})

\* C27: avoid(list) adds to every node's affinity the number of times the node
\* occurs in list (a node never passed reads FREE) and leaves the attachment map
\* alone; push_attached(n) adds one to n's attachment count (0 when never
\* pushed), leaves the other nodes' counts and the affinity map alone.
C27_ContextUpdates ==
    [][ /\ last'.op = "avoid" =>
             /\ \A n \in NodeIds :
                    get_node_affinity(context', n)
                        = get_node_affinity(context, n) + Occurrences(last'.list, n)
             /\ context'.attached_nodes = context.attached_nodes
        /\ last'.op = "push_attached" =>
             /\ \A n \in NodeIds :
                    get_node_attachments(context', n)
                        = get_node_attachments(context, n)
                          + (IF n = last'.node_id THEN 1 ELSE 0)
             /\ context'.nodes = context.nodes
      ]_vars

\* avoid was called with the same node twice after a push_attached: the node's
\* affinity is 2, a node never passed reads FREE, the attachment is still counted
C27_Witness ==
    /\ last.op = "avoid"
    /\ Len(last.list) = 2
    /\ last.list[1] = last.list[2]
    /\ get_node_affinity(context, last.list[1]) = 2
    /\ \E n \in NodeIds : n \notin DOMAIN context.nodes /\ get_node_affinity(context, n) = FREE
    /\ \E n \in NodeIds : get_node_attachments(context, n) = 1

----------------------------------------------------------------------------
(* SpecMode: schedule_shard called with a context in either mode, its log  *)
(* lines recorded with its result.                                         *)

ScheduleModes == {"Normal", "Speculative"}

\* Largest affinity and attached-in-context count of the contexts of SpecMode
MaxModeAffinity == 1

\* The contexts of `Contexts` up to MaxModeAffinity, in either mode
ModeContexts ==
    {[nodes |-> Sparse(a), attached_nodes |-> Sparse(b), mode |-> mode] :
        a \in [NodeIds -> 0..MaxModeAffinity],
        b \in [NodeIds -> 0..MaxModeAffinity],
        mode \in ScheduleModes}

InitMode ==
    /\ nodes \in Tables
    /\ context \in ModeContexts
    /\ hard_exclude \in SUBSET NodeIds
    /\ registry = Unused
    /\ intents = Unused
    /\ start = Unused
    /\ writer = Unused
    /\ calls = Unused
    /\ removed = Unused
    /\ local_pool = Unused
    /\ postgres = Unused
    /\ reader = Unused
    /\ last = NoOp

\* A call of schedule_shard::<Tag>(&hard_exclude, &context) and what it logged
ScheduleShardLogged(tag) ==
    \E order \in IterationOrders(DOMAIN nodes) :
        LET r == schedule_shard(tag, nodes, order, hard_exclude, context)
        IN /\ nodes' = r.nodes
           /\ last' = [op |-> "schedule_shard", tag |-> tag, order |-> order,
                       result |-> r.result, log |-> r.log]
           /\ UNCHANGED <<registry, intents, start, context, hard_exclude, writer, calls, removed,
                 local_pool, postgres, reader>>

NextMode == \E tag \in Tags : ScheduleShardLogged(tag)

SpecMode == InitMode /\ [][NextMode]_vars

\* The other scheduling mode
OtherMode(mode) == IF mode = "Normal" THEN "Speculative" ELSE "Normal"

\* C28: the mode of the context decides what schedule_shard logs and nothing
\* else: the same call on the same table, hard_exclude and context maps in the
\* other mode returns the same result and leaves the same node table; a
\* speculative call logs nothing.
C28_ModeOnlyLogs ==
    [][last'.op = "schedule_shard" =>
         LET other == schedule_shard(last'.tag, nodes, last'.order, hard_exclude,
                                     [context EXCEPT !.mode = OtherMode(@)])
         IN /\ other.result = last'.result
            /\ other.nodes = nodes'
            /\ (context.mode = "Speculative" => last'.log = <<>>)
      ]_vars

\* A speculative call failed with every candidate excluded and logged nothing,
\* where the same call in normal mode logs the node states
C28_Witness ==
    /\ last.op = "schedule_shard"
    /\ context.mode = "Speculative"
    /\ last.result = Err("ImpossibleConstraint")
    /\ last.log = <<>>
    /\ DOMAIN nodes # {}
    /\ schedule_shard(last.tag, nodes, last.order, hard_exclude,
                      [context EXCEPT !.mode = "Normal"]).log # <<>>

----------------------------------------------------------------------------
(* Rebuilding the scheduler, checked under Spec *)

\* C29: the scheduler rebuilt by new over the registry's nodes, followed by one
\* Attach per attached intent entry and one AddSecondary per secondary intent
\* entry, has the nodes of the incrementally maintained scheduler, each with the
\* same shard_count and attached_shard_count.
C29_RebuildEqualsIncremental ==
    LET rebuilt == Replay(new(registry), intents, MaxShard)
    IN /\ DOMAIN rebuilt = DOMAIN nodes
       /\ \A n \in DOMAIN nodes : Counters(rebuilt[n]) = Counters(nodes[n])

\* C29 witness: the incremental scheduler has just taken a DemoteAttached, an
\* update the rebuild never issues, and holds a node with an attached and a
\* secondary location while the demoted node keeps its secondary location.
C29_Witness ==
    /\ \E n \in NodeIds : Updated(n, "DemoteAttached") /\ nodes[n].shard_count > 0
    /\ \E n \in DOMAIN nodes :
          nodes[n].attached_shard_count = 1 /\ nodes[n].shard_count = 2

----------------------------------------------------------------------------
(* BufferedWriter (pageserver/src/virtual_file/owned_buffers_io/write.rs)   *)
(* A BufferedWriter is [writer, buf, io]: the underlying OwnedAsyncWriter   *)
(* as the list of writes it has received, buf as Option<B> with B a record *)
(* of the buffered bytes and the capacity, and io, the number of write_all *)
(* calls the underlying writer will still serve before it returns an error *)

\* Largest capacity of the buffer
MaxCapacity == 2

\* Longest chunk passed to a write call
MaxChunkLen == 3

\* Largest number of calls made on one BufferedWriter
MaxWriterCalls == 4

Min(a, b) == IF a <= b THEN a ELSE b

IoError == Err("io")

\* Ok(()) of std::io::Result<()>
OkUnit == Ok(<<>>)

\* impl Buffer for BytesMut: cap, pending, extend_from_slice, flush,
\* reconstruct_after_flush
cap(b) == b.cap

pending(b) == Len(b.bytes)

extend_from_slice(b, other) == [b EXCEPT !.bytes = @ \o other]

BufferFlush(b) == SubSeq(b.bytes, 1, Len(b.bytes))

reconstruct_after_flush(iobuf) == [iobuf EXCEPT !.bytes = <<>>]

\* BufferedWriter::new(writer, buf)
BufferedWriter(capacity) ==
    [writer |-> <<>>, buf |-> {[bytes |-> <<>>, cap |-> capacity]}, io |-> 0]

\* RecorderWriter::write_all: the bytes are pushed as one write, also when
\* there are none
RecorderWrite(writes, bytes) == Append(writes, bytes)

\* OwnedAsyncWriter::write_all on the underlying writer, which returns
\* std::io::Result: Ok with the number of bytes written, or, for a writer that
\* has no io left, an error with nothing recorded
write_all(this, bytes) ==
    IF this.io = 0
    THEN [this |-> this, result |-> IoError]
    ELSE [this |-> [this EXCEPT !.writer = RecorderWrite(@, bytes), !.io = @ - 1],
          result |-> Ok(Len(bytes))]

\* Mutant of flush: the underlying writer is called also when nothing is pending
flush_WritesEmpty(this) ==
    IF this.buf = {}
    THEN [this |-> this, result |-> Panic]
    ELSE LET buf == CHOOSE b \in this.buf : TRUE
             w == write_all([this EXCEPT !.buf = {}], BufferFlush(buf))
         IN IF ~IsOk(w.result)
            THEN w
            ELSE [this |-> [w.this EXCEPT !.buf = {reconstruct_after_flush(buf)}],
                  result |-> OkUnit]

\* BufferedWriter::flush(&mut self): buf is taken, and put back only when
\* nothing was pending or the write succeeded
flush(this) ==
    IF this.buf = {}
    THEN [this |-> this, result |-> Panic]
    ELSE LET buf == CHOOSE b \in this.buf : TRUE
             buf_len == pending(buf)
             taken == [this EXCEPT !.buf = {}]
         IN IF buf_len = 0
            THEN [this |-> [taken EXCEPT !.buf = {buf}], result |-> OkUnit]
            ELSE LET w == write_all(taken, BufferFlush(buf))
                 IN IF ~IsOk(w.result)
                    THEN w
                    ELSE [this |-> [w.this EXCEPT !.buf = {reconstruct_after_flush(buf)}],
                          result |-> OkUnit]

\* The copy loop of write_buffered_borrowed (and, with the same text, of
\* write_buffered): fill buf up to its capacity, flush when it is full, go on
\* with the rest of the slice
RECURSIVE CopyLoop(_, _)
CopyLoop(this, slice) ==
    IF slice = <<>>
    THEN [this |-> this, result |-> OkUnit]
    ELSE IF this.buf = {}
    THEN [this |-> this, result |-> Panic]
    ELSE LET buf == CHOOSE b \in this.buf : TRUE
             need == cap(buf) - pending(buf)
             have == Len(slice)
             n == Min(need, have)
             filled == extend_from_slice(buf, SubSeq(slice, 1, n))
             rest == SubSeq(slice, n + 1, have)
             copied == [this EXCEPT !.buf = {filled}]
         IN IF pending(filled) >= cap(filled)
            THEN LET f == flush(copied)
                 IN IF ~IsOk(f.result) THEN f ELSE CopyLoop(f.this, rest)
            ELSE CopyLoop(copied, rest)

\* BufferedWriter::write_buffered_borrowed(&mut self, chunk)
write_buffered_borrowed(this, chunk) ==
    LET r == CopyLoop(this, chunk)
    IN IF IsOk(r.result) THEN [this |-> r.this, result |-> Ok(Len(chunk))] ELSE r

\* Mutant of write_buffered: a large chunk is passed through without flushing
\* the pending bytes first
write_buffered_NoFlushFirst(this, chunk) ==
    IF this.buf = {}
    THEN [this |-> this, result |-> Panic]
    ELSE IF Len(chunk) >= cap(CHOOSE b \in this.buf : TRUE)
    THEN write_all(this, chunk)
    ELSE write_buffered_borrowed(this, chunk)

\* BufferedWriter::write_buffered(&mut self, chunk): a chunk of at least the
\* capacity is written through after a flush, a shorter one is copied
write_buffered(this, chunk) ==
    IF this.buf = {}
    THEN [this |-> this, result |-> Panic]
    ELSE IF Len(chunk) >= cap(CHOOSE b \in this.buf : TRUE)
    THEN LET f == flush(this)
         IN IF ~IsOk(f.result) THEN f ELSE write_all(f.this, chunk)
    ELSE LET r == CopyLoop(this, chunk)
         IN IF IsOk(r.result) THEN [this |-> r.this, result |-> Ok(Len(chunk))] ELSE r

\* BufferedWriter::inspect_buffer(&self), which is self.buf(): the buffer, or a
\* panic ("must not use after we returned an error") when buf is None
inspect_buffer(this) ==
    IF this.buf = {}
    THEN [this |-> this, result |-> Panic]
    ELSE [this |-> this, result |-> Ok(CHOOSE b \in this.buf : TRUE)]

\* BufferedWriter::flush_and_into_inner(self): Ok(writer) after a flush
flush_and_into_inner(this) ==
    LET f == flush(this)
    IN IF ~IsOk(f.result) THEN f ELSE [this |-> f.this, result |-> Ok(f.this.writer)]

----------------------------------------------------------------------------
(* SpecWriter: a BufferedWriter over a recording writer takes up to          *)
(* MaxWriterCalls writes and a final flush_and_into_inner.  The bytes of the *)
(* chunks are numbered 1, 2, 3, ... in the order they are passed in, so that *)
(* a lost, repeated or displaced byte shows in the recorded writes.          *)

RECURSIVE Concat(_)
Concat(seqs) == IF seqs = <<>> THEN <<>> ELSE Head(seqs) \o Concat(Tail(seqs))

\* The chunks passed so far, call after call
Chunks == [i \in 1..Len(calls) |-> calls[i].chunk]

\* The chunk of len bytes that follows the bytes passed so far
NextChunk(len) == [i \in 1..len |-> Len(Concat(Chunks)) + i]

\* The number of write_all calls the underlying writer serves during one call
IoBudgets == 0..MaxChunkLen

InitWriter ==
    /\ writer \in {[self |-> BufferedWriter(capacity), consumed |-> FALSE] :
                        capacity \in 1..MaxCapacity}
    /\ calls = <<>>
    /\ nodes = Unused
    /\ registry = Unused
    /\ intents = Unused
    /\ start = Unused
    /\ context = DefaultContext
    /\ hard_exclude = {}
    /\ removed = Unused
    /\ local_pool = Unused
    /\ postgres = Unused
    /\ reader = Unused
    /\ last = NoOp

\* The call `op` with `chunk` returned r: the object, the history and last
Returned(op, chunk, r, consumed) ==
    /\ writer' = [self |-> [r.this EXCEPT !.io = 0], consumed |-> consumed]
    /\ calls' = Append(calls,
                       [op |-> op, chunk |-> chunk, result |-> r.result,
                        writes |-> SubSeq(r.this.writer, Len(writer.self.writer) + 1,
                                          Len(r.this.writer))])
    /\ last' = [op |-> op, result |-> r.result]
    /\ UNCHANGED <<nodes, registry, intents, start, context, hard_exclude, removed,
                 local_pool, postgres, reader>>

\* writer.write_buffered(chunk.slice_full()).await
WriteBuffered(len, io) ==
    /\ ~writer.consumed
    /\ Len(calls) < MaxWriterCalls
    /\ LET chunk == NextChunk(len)
       IN Returned("write_buffered", chunk,
                   write_buffered([writer.self EXCEPT !.io = io], chunk), FALSE)

\* writer.write_buffered_borrowed(chunk).await
WriteBufferedBorrowed(len, io) ==
    /\ ~writer.consumed
    /\ Len(calls) < MaxWriterCalls
    /\ LET chunk == NextChunk(len)
       IN Returned("write_buffered_borrowed", chunk,
                   write_buffered_borrowed([writer.self EXCEPT !.io = io], chunk), FALSE)

\* writer.flush_and_into_inner().await: the BufferedWriter is consumed
FlushAndIntoInner(io) ==
    /\ ~writer.consumed
    /\ Returned("flush_and_into_inner", <<>>,
                flush_and_into_inner([writer.self EXCEPT !.io = io]), TRUE)

\* writer.inspect_buffer()
InspectBuffer ==
    /\ ~writer.consumed
    /\ Len(calls) < MaxWriterCalls
    /\ Returned("inspect_buffer", <<>>, inspect_buffer(writer.self), FALSE)

NextWriter ==
    \/ \E len \in 0..MaxChunkLen, io \in IoBudgets : WriteBuffered(len, io)
    \/ \E len \in 0..MaxChunkLen, io \in IoBudgets : WriteBufferedBorrowed(len, io)
    \/ \E io \in IoBudgets : FlushAndIntoInner(io)
    \/ InspectBuffer

SpecWriter == InitWriter /\ [][NextWriter]_vars

\* Every call so far returned Ok
AllSucceeded == \A i \in 1..Len(calls) : IsOk(calls[i].result)

\* C30: after write_buffered and write_buffered_borrowed calls that all
\* succeeded and a successful flush_and_into_inner, the writes received by the
\* underlying writer, concatenated, are the chunks in call order, concatenated.
C30_NoByteLostOrReordered ==
    (last.op = "flush_and_into_inner" /\ AllSucceeded)
        => Concat(writer.self.writer) = Concat(Chunks)

\* C30 witness: the final flush succeeded after a copied chunk, a chunk written
\* through behind pending bytes and a borrowed chunk longer than the capacity
C30_Witness ==
    /\ last.op = "flush_and_into_inner"
    /\ AllSucceeded
    /\ \E i \in 1..Len(calls) :
          /\ calls[i].op = "write_buffered"
          /\ Len(calls[i].writes) = 2
    /\ \E i \in 1..Len(calls) :
          /\ calls[i].op = "write_buffered_borrowed"
          /\ Len(calls[i].chunk) > cap(CHOOSE b \in writer.self.buf : TRUE)
    /\ Len(writer.self.writer) >= 4
    /\ Len(Concat(Chunks)) >= 5

----------------------------------------------------------------------------
(* The writes one call makes, checked under SpecWriter *)

\* The call that has just returned
LastCall == calls[Len(calls)]

\* C31: a successful write_buffered with a chunk of at least the capacity makes
\* the pending bytes one write (no write when nothing is pending) and then the
\* whole chunk exactly one write; write_buffered with a shorter chunk, and
\* write_buffered_borrowed with any chunk, make only writes of exactly capacity
\* bytes, so never a zero-length write.
C31_WritePattern ==
    [][(calls' # calls /\ writer.self.buf # {}) =>
         LET buf == CHOOSE b \in writer.self.buf : TRUE
             call == calls'[Len(calls')]
         IN /\ (call.op = "write_buffered" /\ Len(call.chunk) >= cap(buf)
                    /\ IsOk(call.result))
                  => call.writes = (IF pending(buf) = 0 THEN <<>> ELSE <<buf.bytes>>)
                                     \o <<call.chunk>>
            /\ (call.op = "write_buffered_borrowed"
                    \/ (call.op = "write_buffered" /\ Len(call.chunk) < cap(buf)))
                  => \A i \in 1..Len(call.writes) : Len(call.writes[i]) = cap(buf)
      ]_vars

\* C31 witness: a chunk of at least the capacity was written through behind
\* pending bytes (two writes, the first shorter than the capacity) after a
\* borrowed chunk had been cut into writes of the capacity
C31_Witness ==
    /\ Len(calls) >= 2
    /\ LastCall.op = "write_buffered"
    /\ IsOk(LastCall.result)
    /\ Len(LastCall.writes) = 2
    /\ LastCall.writes[2] = LastCall.chunk
    /\ \E i \in 1..(Len(calls) - 1) :
          /\ calls[i].op = "write_buffered_borrowed"
          /\ Len(calls[i].writes) >= 1
    /\ \E i \in 1..(Len(calls) - 1) :
          /\ calls[i].op = "write_buffered"
          /\ Len(calls[i].chunk) > 0
          /\ calls[i].writes = <<>>

\* The first call that returned an IO error, 0 when there is none
FirstIoError ==
    IF \E i \in 1..Len(calls) : calls[i].result = IoError
    THEN CHOOSE i \in 1..Len(calls) :
            /\ calls[i].result = IoError
            /\ \A j \in 1..(i - 1) : calls[j].result # IoError
    ELSE 0

\* C32: once a write path has returned an IO error the buffer is None, and
\* every later write or inspect_buffer call panics; after every successful
\* operation the buffer is Some with fewer pending bytes than its capacity.
C32_NoneAfterError ==
    /\ FirstIoError # 0 =>
          /\ writer.self.buf = {}
          /\ \A j \in (FirstIoError + 1)..Len(calls) :
                calls[j].op \in {"write_buffered", "write_buffered_borrowed",
                                 "inspect_buffer"}
                   => IsPanic(calls[j].result)
    /\ (calls # <<>> /\ IsOk(LastCall.result)) =>
          /\ writer.self.buf # {}
          /\ \A b \in writer.self.buf : pending(b) < cap(b)

\* C32 witness: the pass-through write of a chunk failed with an IO error and
\* left the buffer in place: a later inspect_buffer returned it and a later
\* write succeeded
C32_Witness ==
    /\ FirstIoError # 0
    /\ calls[FirstIoError].op = "write_buffered"
    /\ \E j \in (FirstIoError + 1)..Len(calls) :
          calls[j].op = "inspect_buffer" /\ IsOk(calls[j].result)
    /\ \E j \in (FirstIoError + 1)..Len(calls) :
          calls[j].op = "write_buffered" /\ IsOk(calls[j].result)

----------------------------------------------------------------------------
(* SpecBatch: one batch of placements on a freshly built scheduler with a   *)
(* shared context.  An attached placement is schedule_shard for the         *)
(* attached tag, Attach on the result, then avoid and push_attached of the  *)
(* result; a secondary placement is schedule_shard for the secondary tag,   *)
(* AddSecondary on the result and avoid of the result.                      *)

\* Node ids of SpecBatch are 1..MaxBatchNode
MaxBatchNode == 3
\* Number of placements made in one batch
MaxBatchShards == 3

\* Every node of the batch is registered, schedulable or not
BatchRegistries == [1..MaxBatchNode -> MayScheduleValues]

\* intents is the list of the locations placed so far, start the node table
\* at the start of the batch
InitBatch ==
    /\ registry \in BatchRegistries
    /\ nodes = new(registry)
    /\ hard_exclude \in SUBSET (1..MaxBatchNode)
    /\ intents = <<>>
    /\ start = [nodes |-> nodes]
    /\ context = DefaultContext
    /\ writer = Unused
    /\ calls = Unused
    /\ removed = Unused
    /\ local_pool = Unused
    /\ postgres = Unused
    /\ reader = Unused
    /\ last = NoOp

\* schedule_shard::<Tag> returned r: the caller reports `update` on the
\* returned node, records the location and feeds the node back to the context
Placed(tag, r, update, location, attached) ==
    /\ last' = [op |-> "place", tag |-> tag, result |-> r.result]
    /\ IF IsOk(r.result)
       THEN LET n == OkNode(r.result)
                avoided == avoid(context, <<n>>)
            IN /\ nodes' = update_node_ref_counts(r.nodes, n, update)
               /\ intents' = Append(intents, [EmptyIntent EXCEPT ![location] = {n}])
               /\ context' = IF attached THEN push_attached(avoided, n) ELSE avoided
       ELSE /\ nodes' = r.nodes
            /\ UNCHANGED <<intents, context>>
    /\ UNCHANGED <<registry, start, hard_exclude, writer, calls, removed,
                 local_pool, postgres, reader>>

\* An attached placement: schedule, Attach, avoid and push_attached
PlaceAttached ==
    /\ Len(intents) < MaxBatchShards
    /\ \E order \in IterationOrders(DOMAIN nodes) :
          Placed("AttachedShardTag",
                 schedule_shard("AttachedShardTag", nodes, order, hard_exclude, context),
                 "Attach", "attached", TRUE)

\* A secondary placement: schedule, AddSecondary and avoid
PlaceSecondary ==
    /\ Len(intents) < MaxBatchShards
    /\ \E order \in IterationOrders(DOMAIN nodes) :
          Placed("SecondaryShardTag",
                 schedule_shard("SecondaryShardTag", nodes, order, hard_exclude, context),
                 "AddSecondary", "secondary", FALSE)

NextBatch == PlaceAttached \/ PlaceSecondary

SpecBatch == InitBatch /\ [][NextBatch]_vars

\* The nodes that were schedulable, not overloaded and not excluded when the
\* batch started
FitAtStart ==
    {n \in DOMAIN start.nodes \ hard_exclude :
        /\ start.nodes[n].may_schedule.tag = "Yes"
        /\ ~is_overloaded(NodeScore(start.nodes[n]))}

\* The nodes holding an attached location placed in this batch
AttachedPlaced(its) == UNION {its[i].attached : i \in 1..Len(its)}

\* The batch has made attached placements only
OnlyAttached(its) == \A i \in 1..Len(its) : its[i].secondary = {}

\* C33: a batch of k attached placements on a cluster that had at least k
\* schedulable, non-overloaded, non-excluded nodes puts them on k distinct
\* nodes; and an attached placement returns, among the retained candidates of
\* the returned node's affinity, one with the fewest attached shards in the
\* context, whatever the utilizations.
C33_BatchDistinct ==
    [][last'.op = "place" =>
         /\ (OnlyAttached(intents') /\ Cardinality(FitAtStart) >= Len(intents'))
               => Cardinality(AttachedPlaced(intents')) = Len(intents')
         /\ (OnlyAttached(intents') /\ Cardinality(FitAtStart) > Len(intents))
               => IsOk(last'.result)
         /\ (last'.tag = "AttachedShardTag" /\ IsOk(last'.result))
               => LET w == OkNode(last'.result)
                  IN \A m \in Retained :
                        get_node_affinity(context, m) = get_node_affinity(context, w)
                           => get_node_attachments(context, w)
                                 <= get_node_attachments(context, m)
      ]_vars

\* C33 witness: three attached placements went to three distinct nodes
C33_Witness ==
    /\ last.op = "place"
    /\ Len(intents) = 3
    /\ OnlyAttached(intents)
    /\ Cardinality(AttachedPlaced(intents)) = 3
    /\ \E n, m \in DOMAIN start.nodes :
          NodeScore(start.nodes[n]) < NodeScore(start.nodes[m])

----------------------------------------------------------------------------
(* The utilization's shard count, checked under Spec *)

----------------------------------------------------------------------------
(* SpecRemove: Spec with a node registry that may drop a node while shards' *)
(* intents still name it, and add it back later                             *)

\* What the registry of SpecRemove reports for a node: unschedulable, or
\* schedulable with an idle pageserver
RemoveMaySchedule == {No, Yes(Utilization(0, 0))}

InitRemove ==
    /\ registry \in UNION {[keys -> RemoveMaySchedule] : keys \in SUBSET NodeIds}
    /\ nodes = new(registry)
    /\ intents = [s \in Shards |-> EmptyIntent]
    /\ removed = {}
    /\ local_pool = Unused
    /\ postgres = Unused
    /\ reader = Unused
    /\ start = Unused
    /\ context = DefaultContext
    /\ hard_exclude = {}
    /\ writer = Unused
    /\ calls = Unused
    /\ last = NoOp

\* The registry drops a node, named by intents or not
NodeRemoveAny(n) ==
    /\ registry' = Remove(registry, n)
    /\ nodes' = node_remove(nodes, n)
    /\ removed' = IF n \in Referenced(intents) THEN removed \cup {n} ELSE removed
    /\ last' = [op |-> "node_remove", node_id |-> n]
    /\ UNCHANGED <<intents, start, context, hard_exclude, writer, calls,
                 local_pool, postgres, reader>>

\* A counter of the table has wrapped below 0 (a build with overflow checks
\* panics instead): the run is followed up to this point
Wrapped ==
    \E n \in DOMAIN nodes :
        nodes[n].shard_count > MaxShard \/ nodes[n].attached_shard_count > MaxShard

NextRemove ==
    \/ ~Wrapped /\ \E s \in Shards, n \in NodeIds : Attach(s, n)
    \/ ~Wrapped /\ \E s \in Shards : Detach(s)
    \/ ~Wrapped /\ \E s \in Shards, n \in NodeIds : AddSecondary(s, n)
    \/ ~Wrapped /\ \E s \in Shards, n \in NodeIds : RemoveSecondary(s, n)
    \/ ~Wrapped /\ \E s \in Shards, n \in NodeIds : PromoteSecondary(s, n)
    \/ ~Wrapped /\ \E s \in Shards : DemoteAttached(s)
    \/ ~Wrapped /\ \E n \in NodeIds, m \in RemoveMaySchedule : NodeUpsert(n, m)
    \/ ~Wrapped /\ \E n \in NodeIds : NodeRemoveAny(n)

SpecRemove == InitRemove /\ [][NextRemove]_vars

\* The step applies a decrement to a counter of a known node that is 0
DecrementsZero ==
    /\ last'.op = "update_node_ref_counts"
    /\ last'.node_id \in DOMAIN nodes
    /\ \/ /\ last'.update \in {"Detach", "RemoveSecondary"}
          /\ nodes[last'.node_id].shard_count = 0
       \/ /\ last'.update \in {"Detach", "DemoteAttached"}
          /\ nodes[last'.node_id].attached_shard_count = 0

\* C35 as claimed: in any sequence of node_upsert, node_remove and paired
\* update_ref_counts calls, removal of a node that intents still name included,
\* no Detach, RemoveSecondary or DemoteAttached is applied to a counter that
\* is 0.
C35_NeverUnderflows == [][~DecrementsZero]_vars

\* C35 as amended: as long as no node has been removed while an intent still
\* named it, no Detach, RemoveSecondary or DemoteAttached is applied to a
\* counter that is 0.
C35_NoUnderflowUnlessRemoved == [][removed = {} => ~DecrementsZero]_vars

\* C35 witness: with no referenced node ever removed and a node missing from
\* the table, a RemoveSecondary has taken a node back to the one attached
\* location it still holds
C35_Witness ==
    /\ removed = {}
    /\ \E n \in NodeIds : Updated(n, "RemoveSecondary") /\ Counters(nodes[n]) = <<1, 1>>
    /\ \E m \in NodeIds : m \notin DOMAIN nodes

----------------------------------------------------------------------------
(* Further properties of consistency_check, checked under SpecCheck *)

\* Some node is in the table and supplied with the other schedulable variant
VariantMismatch ==
    \E n \in DOMAIN nodes \cap DOMAIN registry :
        nodes[n].may_schedule.tag # registry[n].tag

\* C36: consistency_check fails when the supplied node set differs from the
\* node table's, or a node's variant (Yes or No) differs between the supplied
\* node and the table, also when the counters agree; with the same node set,
\* the same variants, agreeing counters and no dangling reference it
\* succeeds, whatever the utilization values are.
C36_NodeSetAndVariant ==
    last.op = "consistency_check"
        => /\ DOMAIN registry # DOMAIN nodes => ~IsOk(last.result)
           /\ VariantMismatch => ~IsOk(last.result)
           /\ (/\ DOMAIN registry = DOMAIN nodes
               /\ ~VariantMismatch
               /\ ~CounterMismatch
               /\ ~DanglingReference) => IsOk(last.result)

\* C36 witness: the check failed although the counters agree with the intents
\* and every supplied node has the table's variant, because the table holds a
\* node that was not supplied; a supplied node differs in utilization only
C36_Witness ==
    /\ last.op = "consistency_check"
    /\ ~IsOk(last.result)
    /\ ~CounterMismatch
    /\ ~DanglingReference
    /\ ~VariantMismatch
    /\ DOMAIN registry # {}
    /\ DOMAIN registry \subseteq DOMAIN nodes
    /\ DOMAIN registry # DOMAIN nodes
    /\ \E n \in DOMAIN registry :
          /\ nodes[n].may_schedule.tag = "Yes"
          /\ nodes[n].may_schedule.u # registry[n].u

----------------------------------------------------------------------------
(* The local connection pool: proxy/src/serverless/local_conn_pool.rs *)

\* Connection ids are 1..MaxConn
MaxConn == 3
\* Largest max_conns_per_endpoint of the configuration
MaxPoolConns == 2

ConnIds == 1..MaxConn
\* The (database, role) pairs
DbUsers == {1, 2}
\* The pair a connection was opened for: ConnInfo::db_and_user()
db_and_user(conn_id) == IF conn_id = MaxConn THEN 2 ELSE 1

\* LocalConnPool::new(config): the EndpointConnPool behind global_pool
EndpointConnPool(max_conns_per_endpoint, max_total_conns) ==
    [pools |-> <<>>,
     total_conns |-> 0,
     max_conns |-> max_conns_per_endpoint,
     global_pool_size_max_conns |-> max_total_conns]

\* Vec::retain: the entries of conns that satisfy keep, in order
Retain(conns, keep) == SelectSeq(conns, LAMBDA c : c \in keep)

\* EndpointConnPool::remove_client(&mut self, db_user, conn_id)
remove_client(this, db_user, conn_id) ==
    IF db_user \in DOMAIN this.pools
    THEN LET conns == this.pools[db_user]
             kept == Retain(conns, ConnIds \ {conn_id})
             removed_len == Len(conns) - Len(kept)
         IN [self |-> [this EXCEPT !.pools[db_user] = kept,
                                   !.total_conns = @ - removed_len],
             removed |-> removed_len > 0]
    ELSE [self |-> this, removed |-> FALSE]

\* Mutant of put's locked section: the push ignores max_conns
put_locked_NoLimit(this, db_user, conn_id) ==
    LET conns == IF db_user \in DOMAIN this.pools THEN this.pools[db_user] ELSE <<>>
    IN [self |-> [this EXCEPT
                     !.pools = [u \in DOMAIN this.pools \cup {db_user} |->
                                   IF u = db_user THEN Append(conns, conn_id)
                                   ELSE this.pools[u]],
                     !.total_conns = @ + 1],
        returned |-> TRUE]

\* EndpointConnPool::put, the section under pool.write(): the connection is
\* pushed when total_conns is below max_conns
put_locked(this, db_user, conn_id) ==
    IF this.total_conns < this.max_conns
    THEN LET conns == IF db_user \in DOMAIN this.pools
                      THEN this.pools[db_user] ELSE <<>>
         IN [self |-> [this EXCEPT
                          !.pools = [u \in DOMAIN this.pools \cup {db_user} |->
                                        IF u = db_user THEN Append(conns, conn_id)
                                        ELSE this.pools[u]],
                          !.total_conns = @ + 1],
             returned |-> TRUE]
    ELSE [self |-> this, returned |-> FALSE]

\* EndpointConnPool::get_conn_entry with DbUserConnPool::get_conn_entry and
\* clear_closed_clients: the closed entries are dropped, the last open one is
\* popped; closed is the set of connections whose is_closed() is true
get_conn_entry(this, db_user, closed) ==
    IF db_user \in DOMAIN this.pools
    THEN LET conns == this.pools[db_user]
             open == Retain(conns, ConnIds \ closed)
             cleared == Len(conns) - Len(open)
             popped == IF open = <<>> THEN 0 ELSE 1
         IN [self |-> [this EXCEPT
                          !.pools[db_user] = SubSeq(open, 1, Len(open) - popped),
                          !.total_conns = @ - cleared - popped],
             conn |-> IF open = <<>> THEN {} ELSE {open[Len(open)]},
             dropped |-> {conns[i] : i \in DOMAIN conns} \cap closed]
    ELSE [self |-> this, conn |-> {}, dropped |-> {}]

\* A connection made by poll_client: where its ClientInner is, whether the
\* connection is closed, what its connection task does
ClientInner(at, closed, task) == [at |-> at, closed |-> closed, task |-> task]

\* A dropped ClientInner cancels its connection task
Dropped == ClientInner("dropped", TRUE, "done")

InitPool ==
    /\ local_pool \in
         {[global_pool |-> EndpointConnPool(m, g),
           clients |-> [c \in ConnIds |-> ClientInner("new", FALSE, "none")]] :
            m \in 1..MaxPoolConns, g \in 1..MaxConn}
    /\ nodes = Unused
    /\ registry = Unused
    /\ intents = Unused
    /\ start = Unused
    /\ context = Unused
    /\ hard_exclude = Unused
    /\ writer = Unused
    /\ calls = Unused
    /\ removed = Unused
    /\ postgres = Unused
    /\ reader = Unused
    /\ last = NoOp

\* The connections whose is_closed() is true
Closed == {c \in ConnIds : local_pool.clients[c].closed}

\* A step of the pool: the pool and the connections it moved, the rest of the
\* model is left alone
PoolStep(global_pool, clients, op) ==
    /\ local_pool' = [global_pool |-> global_pool, clients |-> clients]
    /\ last' = op
    /\ UNCHANGED <<nodes, registry, intents, start, context, hard_exclude, writer,
                   calls, removed, postgres, reader>>

\* poll_client: a new connection, its task spawned, is handed out as a
\* LocalClient
PollClient(c) ==
    /\ local_pool.clients[c].at = "new"
    /\ PoolStep(local_pool.global_pool,
                [local_pool.clients EXCEPT ![c] = ClientInner("client", FALSE, "running")],
                [op |-> "poll_client", conn_id |-> c])

\* The connection ends (poll_message yields an error or None): is_closed()
\* is true from now on and the task goes on to remove the client
ConnectionClosed(c) ==
    /\ local_pool.clients[c].task = "running"
    /\ PoolStep(local_pool.global_pool,
                [local_pool.clients EXCEPT ![c].closed = TRUE, ![c].task = "closing"],
                [op |-> "closed", conn_id |-> c])

\* The connection task removes the client from the pool: on the idle timeout
\* while it is running, and once after the connection ended
RemoveClient(c) ==
    /\ local_pool.clients[c].task \in {"running", "closing"}
    /\ LET r == remove_client(local_pool.global_pool, db_and_user(c), c)
           client == local_pool.clients[c]
       IN PoolStep(r.self,
                   [local_pool.clients EXCEPT ![c] =
                       IF r.removed THEN Dropped
                       ELSE IF client.task = "closing"
                            THEN [client EXCEPT !.task = "done"]
                            ELSE client],
                   [op |-> "remove_client", conn_id |-> c, removed |-> r.removed])

\* Discard::discard and check_idle take the pool reference: the later drop
\* of the LocalClient drops the connection
Discard(c) ==
    /\ local_pool.clients[c].at = "client"
    /\ PoolStep(local_pool.global_pool,
                [local_pool.clients EXCEPT ![c] = Dropped],
                [op |-> "discard", conn_id |-> c])

\* Drop for LocalClient: do_drop hands the connection to a blocking task
\* that runs EndpointConnPool::put
DropClient(c) ==
    /\ local_pool.clients[c].at = "client"
    /\ PoolStep(local_pool.global_pool,
                [local_pool.clients EXCEPT ![c].at = "put"],
                [op |-> "drop", conn_id |-> c])

\* put, first test: a closed connection is thrown away
PutIsClosed(c) ==
    /\ local_pool.clients[c].at = "put"
    /\ PoolStep(local_pool.global_pool,
                [local_pool.clients EXCEPT ![c] =
                    IF @.closed THEN Dropped ELSE [@ EXCEPT !.at = "put_read"]],
                [op |-> "put", step |-> "is_closed", conn_id |-> c,
                 returned |-> FALSE, is_closed |-> local_pool.clients[c].closed])

\* put, second test under pool.read(): thrown away when the pool holds
\* global_pool_size_max_conns connections
PutRead(c) ==
    /\ local_pool.clients[c].at = "put_read"
    /\ LET full == local_pool.global_pool.total_conns
                     >= local_pool.global_pool.global_pool_size_max_conns
       IN PoolStep(local_pool.global_pool,
                   [local_pool.clients EXCEPT ![c] =
                       IF full THEN Dropped ELSE [@ EXCEPT !.at = "put_write"]],
                   [op |-> "put", step |-> "read", conn_id |-> c,
                    returned |-> FALSE, is_closed |-> local_pool.clients[c].closed])

\* put, the section under pool.write()
PutWrite(c) ==
    /\ local_pool.clients[c].at = "put_write"
    /\ LET r == put_locked(local_pool.global_pool, db_and_user(c), c)
       IN PoolStep(r.self,
                   [local_pool.clients EXCEPT ![c] =
                       IF r.returned THEN [@ EXCEPT !.at = "pooled"] ELSE Dropped],
                   [op |-> "put", step |-> "write", conn_id |-> c,
                    returned |-> r.returned,
                    is_closed |-> local_pool.clients[c].closed])

\* LocalConnPool::get, the section under global_pool.write()
GetConnEntry(db_user) ==
    /\ \A c \in ConnIds : local_pool.clients[c].at # "get"
    /\ LET r == get_conn_entry(local_pool.global_pool, db_user, Closed)
       IN PoolStep(r.self,
                   [c \in ConnIds |->
                       IF c \in r.dropped THEN Dropped
                       ELSE IF c \in r.conn
                            THEN [local_pool.clients[c] EXCEPT !.at = "get"]
                            ELSE local_pool.clients[c]],
                   [op |-> "get_conn_entry", db_user |-> db_user, conn |-> r.conn])

\* LocalConnPool::get, after the lock: a closed connection is dropped and
\* Ok(None) returned, an open one is returned as a LocalClient
GetReturn(c) ==
    /\ local_pool.clients[c].at = "get"
    /\ PoolStep(local_pool.global_pool,
                [local_pool.clients EXCEPT ![c] =
                    IF @.closed THEN Dropped ELSE [@ EXCEPT !.at = "client"]],
                [op |-> "get", conn_id |-> c,
                 result |-> IF local_pool.clients[c].closed THEN {} ELSE {c},
                 is_closed |-> local_pool.clients[c].closed])

NextPool ==
    \/ \E c \in ConnIds : PollClient(c)
    \/ \E c \in ConnIds : ConnectionClosed(c)
    \/ \E c \in ConnIds : RemoveClient(c)
    \/ \E c \in ConnIds : Discard(c)
    \/ \E c \in ConnIds : DropClient(c)
    \/ \E c \in ConnIds : PutIsClosed(c)
    \/ \E c \in ConnIds : PutRead(c)
    \/ \E c \in ConnIds : PutWrite(c)
    \/ \E u \in DbUsers : GetConnEntry(u)
    \/ \E c \in ConnIds : GetReturn(c)

SpecPool == InitPool /\ [][NextPool]_vars

\* The connections stored across all (database, role) pools
StoredConns ==
    {<<u, i>> \in (DOMAIN local_pool.global_pool.pools) \X ConnIds :
        i <= Len(local_pool.global_pool.pools[u])}

\* total_conns counts the stored connections and stays within
\* max_conns_per_endpoint
CountsStored ==
    /\ local_pool.global_pool.total_conns = Cardinality(StoredConns)
    /\ local_pool.global_pool.total_conns <= local_pool.global_pool.max_conns

\* The connections stored in some pool
Pooled ==
    {local_pool.global_pool.pools[e[1]][e[2]] : e \in StoredConns}

----------------------------------------------------------------------------
(* The compute migration runner: compute_tools/src/migration.rs *)

\* Longest migration list
MaxMigrations == 3
\* Number of run_migrations calls in a behaviour
MaxRuns == 2

\* Migration::Cluster(text) and Migration::PerDatabase(text); skip says
\* whether the text starts with "-- SKIP"
Cluster(skip) == [kind |-> "Cluster", skip |-> skip]
PerDatabase(skip) == [kind |-> "PerDatabase", skip |-> skip]
Migrations == {Cluster(FALSE), Cluster(TRUE), PerDatabase(FALSE), PerDatabase(TRUE)}

\* The database of the connection string, and the other databases
admin_db == "postgres"
DatabaseNames == {admin_db, "a", "b"}

\* get_existing_dbs: "a" may have connections restricted, "b" may be invalid
Databases ==
    {[d \in DatabaseNames |->
        [invalid |-> d = "b" /\ invalid, restrict_conn |-> d = "a" /\ restrict] ] :
       invalid \in BOOLEAN, restrict \in BOOLEAN}

\* Mutant of migration_id: the index itself
migration_id_Index(cm) == cm

\* macro migration_id!(cm)
migration_id(cm) == cm + 1

\* Mutant of run_migration: the id is stored whatever update_migration_id says
run_migration_AlwaysUpdates(pg, db, id, migration, update_migration_id, ok) ==
    IF migration.skip
    THEN [pg |-> pg, result |-> OkUnit, ran |-> FALSE]
    ELSE IF ~ok
         THEN [pg |-> pg, result |-> Err("db error"), ran |-> FALSE]
         ELSE [pg |-> [pg EXCEPT !.applied[db][id] = @ + 1,
                                 !.id = id],
               result |-> OkUnit, ran |-> TRUE]

\* MigrationRunner::run_migration(client, db, migration_id, migration,
\* update_migration_id): a skipped migration does nothing; otherwise BEGIN,
\* the migration, the update of the stored id when asked for, COMMIT, as one
\* transaction that either commits (ok) or leaves the database as it was
run_migration(pg, db, id, migration, update_migration_id, ok) ==
    IF migration.skip
    THEN [pg |-> pg, result |-> OkUnit, ran |-> FALSE]
    ELSE IF ~ok
         THEN [pg |-> pg, result |-> Err("db error"), ran |-> FALSE]
         ELSE [pg |-> [pg EXCEPT !.applied[db][id] = @ + 1,
                                 !.id = IF update_migration_id THEN id ELSE @],
               result |-> OkUnit, ran |-> TRUE]

\* The databases a PerDatabase migration visits before the admin database
NonInvalid(dbs) == {d \in DOMAIN dbs : ~dbs[d].invalid} \ {admin_db}

\* The databases still to visit when the loop reaches index cm
ToVisit(pg, cm) ==
    IF cm < Len(pg.migrations) /\ pg.migrations[cm + 1].kind = "PerDatabase"
    THEN NonInvalid(pg.dbs)
    ELSE {}

\* The runner before its first run
Idle ==
    [pc |-> "idle", current_migration |-> 0, todo |-> {}, start |-> 0,
     executed |-> <<>>, runs |-> 0, after_success |-> FALSE]

InitMigration ==
    /\ postgres \in
         {[migrations |-> ms,
           dbs |-> dbs,
           id |-> 0,
           applied |-> [d \in DatabaseNames |-> [k \in 1..Len(ms) |-> 0]],
           allow_connections |-> {d \in DatabaseNames : ~dbs[d].restrict_conn},
           runner |-> Idle] :
            ms \in UNION {[1..n -> Migrations] : n \in 1..MaxMigrations},
            dbs \in Databases}
    /\ nodes = Unused
    /\ registry = Unused
    /\ intents = Unused
    /\ start = Unused
    /\ context = Unused
    /\ hard_exclude = Unused
    /\ writer = Unused
    /\ calls = Unused
    /\ removed = Unused
    /\ local_pool = Unused
    /\ reader = Unused
    /\ last = NoOp

\* A step of the runner; the rest of the model is left alone
RunnerStep(pg, op) ==
    /\ postgres' = pg
    /\ last' = op
    /\ UNCHANGED <<nodes, registry, intents, start, context, hard_exclude, writer,
                   calls, removed, local_pool, reader>>

\* The loop moves on to the next index
Advance(pg) ==
    [pg EXCEPT !.runner.current_migration = @ + 1,
               !.runner.todo = ToVisit(pg, pg.runner.current_migration + 1)]

\* The run returns the error
Failed(pg) == [pg EXCEPT !.runner.pc = "failed"]

\* One execution recorded in the run's history
Executed(pg, r, db, id) ==
    IF r.ran THEN [pg EXCEPT !.runner.executed = Append(@, [id |-> id, db |-> db])]
    ELSE pg

\* run_migrations, up to the loop: prepare_migrations, get_existing_dbs and
\* get_migration_id; any of them may fail
RunMigrations(ok) ==
    /\ postgres.runner.pc \in {"idle", "done", "failed"}
    /\ postgres.runner.runs < MaxRuns
    /\ LET began == [postgres EXCEPT
                        !.runner.runs = @ + 1,
                        !.runner.after_success = postgres.runner.pc = "done",
                        !.runner.executed = <<>>,
                        !.runner.start = postgres.id,
                        !.runner.current_migration = postgres.id,
                        !.runner.todo = ToVisit(postgres, postgres.id)]
       IN RunnerStep(IF ok THEN [began EXCEPT !.runner.pc = "loop"] ELSE Failed(began),
                     [op |-> "run_migrations", ok |-> ok])

\* The loop ends: Ok(())
LoopEnd ==
    /\ postgres.runner.pc = "loop"
    /\ postgres.runner.current_migration >= Len(postgres.migrations)
    /\ RunnerStep([postgres EXCEPT !.runner.pc = "done"], [op |-> "return"])

\* The arm Migration::Cluster of the loop
ClusterMigration(ok) ==
    /\ postgres.runner.pc = "loop"
    /\ postgres.runner.current_migration < Len(postgres.migrations)
    /\ LET cm == postgres.runner.current_migration
           migration == postgres.migrations[cm + 1]
           r == run_migration(postgres, admin_db, migration_id(cm), migration, TRUE, ok)
       IN /\ migration.kind = "Cluster"
          /\ RunnerStep(IF IsOk(r.result)
                        THEN Advance(Executed(r.pg, r, admin_db, migration_id(cm)))
                        ELSE Failed(r.pg),
                        [op |-> "run_migration", db |-> admin_db,
                         id |-> migration_id(cm), ran |-> r.ran,
                         result |-> r.result])

\* The arm Migration::PerDatabase, one pass of its for loop: connections are
\* allowed when restricted (allowed), the migration runs without storing the
\* id (ok), connections are disallowed again, failing or not (reset)
DatabaseMigration(db, allowed, ok, reset) ==
    /\ postgres.runner.pc = "loop"
    /\ db \in postgres.runner.todo
    /\ LET cm == postgres.runner.current_migration
           migration == postgres.migrations[cm + 1]
           restrict_conn == postgres.dbs[db].restrict_conn
           r == run_migration(postgres, db, migration_id(cm), migration, FALSE, ok)
           visited == [Executed(r.pg, r, db, migration_id(cm)) EXCEPT
                          !.runner.todo = @ \ {db},
                          !.allow_connections =
                              IF restrict_conn /\ reset THEN @ \ {db}
                              ELSE @ \cup {db}]
       IN IF restrict_conn /\ ~allowed
          THEN RunnerStep(Failed(postgres),
                          [op |-> "run_migration", db |-> db, id |-> migration_id(cm),
                           ran |-> FALSE, result |-> Err("db error")])
          ELSE RunnerStep(IF IsOk(r.result) THEN visited ELSE Failed(visited),
                          [op |-> "run_migration", db |-> db, id |-> migration_id(cm),
                           ran |-> r.ran, result |-> r.result])

\* The arm Migration::PerDatabase, after its for loop: the admin database
AdminMigration(ok) ==
    /\ postgres.runner.pc = "loop"
    /\ postgres.runner.current_migration < Len(postgres.migrations)
    /\ postgres.runner.todo = {}
    /\ LET cm == postgres.runner.current_migration
           migration == postgres.migrations[cm + 1]
           r == run_migration(postgres, admin_db, migration_id(cm), migration, TRUE, ok)
       IN /\ migration.kind = "PerDatabase"
          /\ RunnerStep(IF IsOk(r.result)
                        THEN Advance(Executed(r.pg, r, admin_db, migration_id(cm)))
                        ELSE Failed(r.pg),
                        [op |-> "run_migration", db |-> admin_db,
                         id |-> migration_id(cm), ran |-> r.ran,
                         result |-> r.result])

NextMigration ==
    \/ \E ok \in BOOLEAN : RunMigrations(ok)
    \/ LoopEnd
    \/ \E ok \in BOOLEAN : ClusterMigration(ok)
    \/ \E db \in DatabaseNames, allowed, ok, reset \in BOOLEAN :
          DatabaseMigration(db, allowed, ok, reset)
    \/ \E ok \in BOOLEAN : AdminMigration(ok)

SpecMigration == InitMigration /\ [][NextMigration]_vars


----------------------------------------------------------------------------
(* Properties of the migration runner, checked under SpecMigration *)

\* The ids of the migrations committed in the admin database so far
AdminApplied ==
    {k \in 1..Len(postgres.migrations) : postgres.applied[admin_db][k] > 0}

\* The id of the last migration committed in the admin database, 0 if none
LastApplied ==
    IF AdminApplied = {} THEN 0
    ELSE CHOOSE k \in AdminApplied : \A j \in AdminApplied : j <= k

\* The executions of the current run in the admin database, in order
AdminExecuted ==
    SelectSeq(postgres.runner.executed, LAMBDA e : e.db = admin_db)

\* The current run went through the list in order, from the stored id on:
\* executions are in list order and the admin database ran exactly the
\* unskipped migrations between the stored id and the loop's index
InListOrder ==
    LET executed == postgres.runner.executed
    IN /\ \A i, j \in DOMAIN executed : i < j => executed[i].id <= executed[j].id
       /\ \A i \in DOMAIN executed : executed[i].id > postgres.runner.start
       /\ \A i, j \in DOMAIN AdminExecuted :
             i < j => AdminExecuted[i].id < AdminExecuted[j].id
       /\ {AdminExecuted[i].id : i \in DOMAIN AdminExecuted}
            = {k \in (postgres.runner.start + 1)..postgres.runner.current_migration :
                  ~postgres.migrations[k].skip}

\* A run that follows a fully successful run executes nothing
NothingAfterSuccess ==
    postgres.runner.after_success => postgres.runner.executed = <<>>

\* The original statement of C38: migrations run in list order from the
\* stored id on, the id is stored with the migration that completes it, and
\* after a failure the stored id is the number of migrations applied
C38_IdCountsApplied ==
    /\ InListOrder
    /\ postgres.id = LastApplied
    /\ postgres.runner.pc = "failed" => postgres.id = Cardinality(AdminApplied)
    /\ NothingAfterSuccess

\* C38: run_migrations goes through the list in order starting at the index
\* equal to the stored migration id, skips the migrations marked SKIP without
\* storing an id, and stores index+1 in the same transaction as each
\* migration it executes in the admin database; so at any time, also after a
\* failure, the stored id is index+1 of the last migration completed (0 if
\* none), every migration below it was completed or skipped, a later run
\* starts at the stored id, and a run after full success executes nothing.
C38_ResumesAtStoredId ==
    /\ InListOrder
    /\ postgres.id = LastApplied
    /\ \A k \in 1..postgres.id : k \in AdminApplied \/ postgres.migrations[k].skip
    /\ postgres.runner.pc \in {"loop", "done"} => postgres.runner.start <= postgres.id
    /\ NothingAfterSuccess

\* C38 witness: a second run, after a failed one that had stored id 1 and
\* passed a skipped migration, starts at index 1, skips again and completes
\* the third migration
C38_Witness ==
    /\ postgres.runner.pc = "done"
    /\ postgres.runner.runs = 2
    /\ ~postgres.runner.after_success
    /\ postgres.runner.start = 1
    /\ Len(postgres.migrations) = 3
    /\ postgres.migrations[2].skip
    /\ AdminApplied = {1, 3}
    /\ postgres.id = 3
    /\ postgres.applied[admin_db][1] = 1

\* In the current run the admin database ran a PerDatabase migration only
\* after every non-invalid other database had run it
AdminRunsLast ==
    LET executed == postgres.runner.executed
    IN \A i \in DOMAIN executed :
          (executed[i].db = admin_db
             /\ postgres.migrations[executed[i].id].kind = "PerDatabase")
            => \A d \in NonInvalid(postgres.dbs) :
                  \E j \in 1..(i - 1) : executed[j] = [id |-> executed[i].id, db |-> d]

----------------------------------------------------------------------------
(* HTTP version detection: proxy/src/serverless/http_auto.rs *)

\* Longest run of bytes that follows the part of the stream taken from the
\* preface
MaxTail == 2
\* Largest buffer a caller reads the Rewind with
MaxReadBuf == 3

\* const H2_PREFACE = b"PRI * HTTP/2.0\r\n\r\nSM\r\n\r\n"
H2_PREFACE ==
    <<80, 82, 73, 32, 42, 32, 72, 84, 84, 80, 47, 50, 46, 48, 13, 10, 13, 10,
      83, 77, 13, 10, 13, 10>>

\* The bytes of s after its first n bytes
Skip(s, n) == SubSeq(s, n + 1, Len(s))

\* The streams of the model: a part of the preface followed by up to MaxTail
\* bytes drawn from 'G' and 'P'
Streams ==
    {SubSeq(H2_PREFACE, 1, p) \o tail :
        p \in 0..Len(H2_PREFACE),
        tail \in UNION {[1..n -> {71, 80}] : n \in 0..MaxTail}}

\* read_version(io): the future before its first poll
read_version(io) ==
    [io |-> io, buf |-> <<>>, version |-> "H2", state |-> "polling"]

\* Mutant of SwitchToH1: only the end of the stream switches to H1
SwitchToH1_OnlyAtEnd(filled, len) ==
    Len(filled) = len

\* The test of ReadVersion::poll after a read that had len bytes before it:
\* nothing was read, or what was read differs from the preface
SwitchToH1(filled, len) ==
    \/ Len(filled) = len
    \/ Skip(filled, len) # SubSeq(H2_PREFACE, len + 1, Len(filled))

\* One pass of the loop of ReadVersion::poll in which the stream hands over
\* n bytes (0 at its end), and the resolution when the loop is left
poll(this, n) ==
    LET len == Len(this.buf)
        filled == this.buf \o SubSeq(this.io, 1, n)
        version == IF SwitchToH1(filled, len) THEN "H1" ELSE this.version
        left == version = "H1" \/ Len(filled) >= Len(H2_PREFACE)
    IN [io |-> Skip(this.io, n), buf |-> filled, version |-> version,
        state |-> IF left THEN "ready" ELSE "polling"]

\* Rewind::new_buffered(io, buf)
new_buffered(io, buf) == [pre |-> {buf}, inner |-> io]

\* Read for Rewind, poll_read with a buffer of the given capacity: the
\* prefix is handed out first, then the inner stream, which hands over n
\* bytes
rewind_poll_read(this, capacity, n) ==
    IF this.pre # {} /\ (CHOOSE prefix \in this.pre : TRUE) # <<>>
    THEN LET prefix == CHOOSE p \in this.pre : TRUE
             copy_len == Min(Len(prefix), capacity)
         IN [self |-> [this EXCEPT !.pre = IF copy_len < Len(prefix)
                                           THEN {Skip(prefix, copy_len)}
                                           ELSE {}],
             read |-> SubSeq(prefix, 1, copy_len)]
    ELSE [self |-> [pre |-> {}, inner |-> Skip(this.inner, n)],
          read |-> SubSeq(this.inner, 1, n)]

\* The numbers of bytes a stream can hand over to a buffer of the given
\* capacity: at least one while it has any, none at its end
Handed(io, capacity) ==
    IF io = <<>> THEN {0} ELSE 1..Min(Len(io), capacity)

InitVersion ==
    /\ reader \in {[input |-> s, future |-> read_version(s), rewind |-> {},
                    out |-> <<>>, eof |-> FALSE] : s \in Streams}
    /\ nodes = Unused
    /\ registry = Unused
    /\ intents = Unused
    /\ start = Unused
    /\ context = Unused
    /\ hard_exclude = Unused
    /\ writer = Unused
    /\ calls = Unused
    /\ removed = Unused
    /\ local_pool = Unused
    /\ postgres = Unused
    /\ last = NoOp

\* A step of the reader; the rest of the model is left alone
ReaderStep(r, op) ==
    /\ reader' = r
    /\ last' = op
    /\ UNCHANGED <<nodes, registry, intents, start, context, hard_exclude, writer,
                   calls, removed, local_pool, postgres>>

\* ReadVersion::poll, a pass of its loop: the stream hands over n bytes
PollRead(n) ==
    /\ reader.future.state = "polling"
    /\ n \in Handed(reader.future.io, Len(H2_PREFACE) - Len(reader.future.buf))
    /\ LET this == poll(reader.future, n)
       IN ReaderStep([reader EXCEPT
                         !.future = this,
                         !.rewind = IF this.state = "ready"
                                    THEN {new_buffered(this.io, this.buf)}
                                    ELSE {}],
                     [op |-> "poll", read |-> n,
                      result |-> IF this.state = "ready" THEN "Ready" ELSE "Continue"])

\* ReadVersion::poll: the stream is not ready, the future stays as it is
PollPending ==
    /\ reader.future.state = "polling"
    /\ ReaderStep(reader, [op |-> "poll", read |-> 0, result |-> "Pending"])

\* ReadVersion::poll: the stream fails, the future resolves to the error
PollError ==
    /\ reader.future.state = "polling"
    /\ ReaderStep([reader EXCEPT !.future.state = "error"],
                  [op |-> "poll", read |-> 0, result |-> "Err"])

\* The caller reads the Rewind with a buffer of the given capacity
RewindRead(capacity, n) ==
    /\ reader.rewind # {}
    /\ ~reader.eof
    /\ LET this == CHOOSE rw \in reader.rewind : TRUE
           r == rewind_poll_read(this, capacity, n)
       IN /\ n \in Handed(this.inner, capacity)
          /\ ReaderStep([reader EXCEPT !.rewind = {r.self},
                                       !.out = @ \o r.read,
                                       !.eof = r.read = <<>>],
                        [op |-> "poll_read", capacity |-> capacity, read |-> r.read])

NextVersion ==
    \/ \E n \in 0..Len(H2_PREFACE) : PollRead(n)
    \/ PollPending
    \/ PollError
    \/ \E capacity \in 1..MaxReadBuf, n \in 0..MaxReadBuf : RewindRead(capacity, n)

SpecVersion == InitVersion /\ [][NextVersion]_vars

\* The stream starts with the whole preface
HasPreface(s) ==
    Len(s) >= Len(H2_PREFACE) /\ SubSeq(s, 1, Len(H2_PREFACE)) = H2_PREFACE

\* The bytes the Rewind has still to yield
ToYield ==
    LET rw == CHOOSE r \in reader.rewind : TRUE
    IN (IF rw.pre = {} THEN <<>> ELSE CHOOSE p \in rw.pre : TRUE) \o rw.inner

\* C40: read_version resolves to H2 exactly when the first 24 bytes received
\* are the HTTP/2 preface, and to H1 as soon as a received byte differs or
\* the stream ends before 24 bytes; the Rewind it returns yields the bytes
\* consumed followed by the rest of the stream, however the input is split
\* into reads.
C40_VersionAndRewind ==
    /\ reader.future.state = "polling"
          => /\ Len(reader.future.buf) < Len(H2_PREFACE)
             /\ reader.future.buf = SubSeq(H2_PREFACE, 1, Len(reader.future.buf))
             /\ reader.rewind = {}
    /\ reader.future.state = "ready"
          => /\ reader.future.version = "H2" <=> HasPreface(reader.input)
             /\ reader.future.version = "H2" <=> reader.future.buf = H2_PREFACE
             /\ reader.future.version \in {"H1", "H2"}
             /\ reader.rewind # {}
             /\ reader.out \o ToYield = reader.input
             /\ reader.eof => reader.out = reader.input

\* C40 witness: a stream whose 21st byte differs from the preface, received
\* in more than one read, resolved to H1, and the Rewind has yielded the
\* whole stream up to its end
C40_Witness ==
    /\ reader.future.state = "ready"
    /\ reader.future.version = "H1"
    /\ Len(reader.input) = 22
    /\ SubSeq(reader.input, 1, 20) = SubSeq(H2_PREFACE, 1, 20)
    /\ reader.input[21] # H2_PREFACE[21]
    /\ Len(reader.future.buf) = 22
    /\ reader.eof
    /\ reader.out = reader.input
    /\ last.op = "poll_read"

====
